---- MODULE Spec2Model ----
(***************************************************************************)
(* A model of the library catalog: the storage clients, the book           *)
(* repository and the book service of src/src.                             *)
(*                                                                         *)
(* Strings that the code lower-cases or searches (title, author, genre)    *)
(* are sequences of one-letter strings.  An Optional[...] value is the     *)
(* empty sequence (None) or a one-element sequence.  A stored record is a  *)
(* function from its keys to values (a Python dict).                       *)
(***************************************************************************)
EXTENDS Integers, Sequences, FiniteSets, TLC

VARIABLES
    variant,   \* which StorageClient the request runs against
    data,      \* what the backend holds: the sequence of stored records
    now,       \* the clock: the instant the next datetime.now() returns
    last,      \* the last call: its name, input, outcome and effect
    tasks,     \* the coroutines in flight: where each is and what it holds
    http       \* AsyncHttpClientManager's class state and the process phase

vars == <<variant, data, now, last, tasks, http>>

----------------------------------------------------------------------------
(* Bounds of the model.                                                    *)

\* the most records create is let to store
MaxBooks == 3
\* the last instant of the clock; every create and update reads a new one
MaxClock == 3

\* Coroutines that run at once.
MaxTasks == 2

\* Sessions that AsyncHttpClientManager creates in one run.
MaxSessions == 2

\* Coroutines that call AsyncHttpClientManager.get_session at once.
MaxCallers == 3

\* No coroutine in flight.
NoTasks == <<>>

\* No session of AsyncHttpClientManager.
NoSession == 0

\* AsyncHttpClientManager as the class statement leaves it, in a running
\* process: _session is None, _lock is free with nobody waiting, no session
\* is open, none was created, close() was never called and is not running.
NoHttp ==
    [session |-> NoSession, lock |-> 0, waiters |-> <<>>, open |-> {},
     created |-> 0, closes |-> 0, closing |-> FALSE, phase |-> "running"]

----------------------------------------------------------------------------
(* Values.                                                                 *)

None == <<>>
Some(v) == <<v>>

\* Python truthiness of an Optional[str]: neither None nor "".  Truthy is
\* for the strings kept as one token, TruthyStr for the strings kept as
\* sequences of letters.
Truthy(opt) == opt # None /\ opt[1] # ""
TruthyStr(opt) == opt # None /\ opt[1] # <<>>

\* str.lower() on one letter.
LowerChar(c) ==
    CASE c = "D" -> "d"
      [] c = "H" -> "h"
      [] c = "M" -> "m"
      [] c = "S" -> "s"
      [] OTHER -> c

\* str.lower()
Lower(s) == [i \in DOMAIN s |-> LowerChar(s[i])]

\* Python's `needle in hay` on strings.
Contains(needle, hay) ==
    \E i \in 0..(Len(hay) - Len(needle)) :
        SubSeq(hay, i + 1, i + Len(needle)) = needle

\* dict.get(key, default)
DictGet(d, key, default) == IF key \in DOMAIN d THEN d[key] ELSE default

\* The keys of a stored record, as _entity_to_dict writes them.
RecordKeys ==
    {"id", "title", "author", "year_of_releasing", "genre", "amount_of_pages",
     "status", "isbn", "cover_url", "description", "subjects", "created_at",
     "updated_at"}

\* The columns of the books table: BookORM has no subjects column.
ORMColumns == RecordKeys \ {"subjects"}

\* BookStatus
BookStatus == {"available", "borrowed", "reserved", "maintenance"}

\* The id of an entity that has none yet (src: None), and the default
\* _generate_next_id uses for a record without an id.
NoId == 0

----------------------------------------------------------------------------
(* Storage clients: get_data and save_data of each variant.                *)

Variants == {"memory", "file", "jsonbin", "postgres"}

\* json.dumps accepts a record unless it holds a datetime.
JsonSerializable(d) ==
    /\ DictGet(d, "created_at", None) = None
    /\ DictGet(d, "updated_at", None) = None

\* The row insert(BookORM) writes for a dict: the mapped columns only, a
\* missing or None timestamp filled by server_default=func.now().
BookRow(d, t) ==
    [k \in ORMColumns |->
        IF k \in {"created_at", "updated_at"}
        THEN (IF DictGet(d, k, None) = None THEN Some(t) ELSE d[k])
        ELSE DictGet(d, k, None)]

\* What the books table refuses: two rows with one primary key, or two
\* rows with one non-null isbn (unique=True).
RowsConflict(rows) ==
    \E i, j \in DOMAIN rows :
        /\ i < j
        /\ \/ rows[i]["id"] = rows[j]["id"]
           \/ rows[i]["isbn"] # None /\ rows[i]["isbn"] = rows[j]["isbn"]

\* get_data: the whole collection, in stored order.
get_data(v, store) == store

\* save_data(records) at instant t: whether it raised, and the store after.
save_data(v, store, records, t) ==
    CASE v = "memory" ->
            [raised |-> FALSE, store |-> records]
      [] v \in {"file", "jsonbin"} ->
            IF \A i \in DOMAIN records : JsonSerializable(records[i])
            THEN [raised |-> FALSE, store |-> records]
            ELSE [raised |-> TRUE, store |-> store]
      [] v = "postgres" ->
            LET rows == [i \in DOMAIN records |-> BookRow(records[i], t)]
            IN  IF RowsConflict(rows)
                THEN [raised |-> TRUE, store |-> store]
                ELSE [raised |-> FALSE, store |-> rows]

----------------------------------------------------------------------------
(* BookRepository.                                                         *)

\* _dict_to_entity: every field read with dict.get and its default.
dict_to_entity(book_data) ==
    [id                |-> DictGet(book_data, "id", NoId),
     title             |-> DictGet(book_data, "title", <<>>),
     author            |-> DictGet(book_data, "author", <<>>),
     year_of_releasing |-> DictGet(book_data, "year_of_releasing", 0),
     genre             |-> DictGet(book_data, "genre", <<>>),
     amount_of_pages   |-> DictGet(book_data, "amount_of_pages", 0),
     status            |-> DictGet(book_data, "status", "available"),
     isbn              |-> DictGet(book_data, "isbn", None),
     cover_url         |-> DictGet(book_data, "cover_url", None),
     description       |-> DictGet(book_data, "description", None),
     subjects          |-> DictGet(book_data, "subjects", <<>>),
     created_at        |-> DictGet(book_data, "created_at", None),
     updated_at        |-> DictGet(book_data, "updated_at", None)]

\* _entity_to_dict: one key per field of the entity.
entity_to_dict(book) == [k \in RecordKeys |-> book[k]]

\* Python's s[start:end] for 0 <= start <= end.
Slice(s, start, end) ==
    LET hi == IF end < Len(s) THEN end ELSE Len(s)
    IN  IF start >= hi THEN <<>> ELSE SubSeq(s, start + 1, hi)

\* A variant of _apply_filters that compares the status without regard to
\* case, as it does the three texts.
apply_filters_status_ci(books, filters) ==
    LET LowerStatus(st) == IF st = "BORROWED" THEN "borrowed" ELSE st
        byTitle ==
            IF TruthyStr(filters.title)
            THEN SelectSeq(books, LAMBDA b :
                    Contains(Lower(filters.title[1]), Lower(b.title)))
            ELSE books
        byAuthor ==
            IF TruthyStr(filters.author)
            THEN SelectSeq(byTitle, LAMBDA b :
                    Contains(Lower(filters.author[1]), Lower(b.author)))
            ELSE byTitle
        byStatus ==
            IF filters.status # None
            THEN SelectSeq(byAuthor, LAMBDA b :
                    LowerStatus(b.status) = LowerStatus(filters.status[1]))
            ELSE byAuthor
        byGenre ==
            IF TruthyStr(filters.genre)
            THEN SelectSeq(byStatus, LAMBDA b :
                    Contains(Lower(filters.genre[1]), Lower(b.genre)))
            ELSE byStatus
    IN  byGenre

\* _apply_filters: each filter that is set narrows the list in turn.
apply_filters(books, filters) ==
    LET byTitle ==
            IF TruthyStr(filters.title)
            THEN SelectSeq(books, LAMBDA b :
                    Contains(Lower(filters.title[1]), Lower(b.title)))
            ELSE books
        byAuthor ==
            IF TruthyStr(filters.author)
            THEN SelectSeq(byTitle, LAMBDA b :
                    Contains(Lower(filters.author[1]), Lower(b.author)))
            ELSE byTitle
        byStatus ==
            IF filters.status # None
            THEN SelectSeq(byAuthor, LAMBDA b : b.status = filters.status[1])
            ELSE byAuthor
        byGenre ==
            IF TruthyStr(filters.genre)
            THEN SelectSeq(byStatus, LAMBDA b :
                    Contains(Lower(filters.genre[1]), Lower(b.genre)))
            ELSE byStatus
    IN  byGenre

\* The largest and the smallest number of a non-empty set.
Max(S) == CHOOSE x \in S : \A y \in S : y <= x
Min(S) == CHOOSE x \in S : \A y \in S : x <= y

\* A variant of _generate_next_id that counts the records instead of taking
\* the largest id.
generate_next_id_by_count(books_data) == Len(books_data) + 1

\* _generate_next_id
generate_next_id(books_data) ==
    IF books_data = <<>> THEN 1
    ELSE Max({DictGet(books_data[i], "id", 0) : i \in DOMAIN books_data}) + 1

\* get_all: load, convert, filter, then slice [offset : offset + limit].
get_all(v, store, filters) ==
    LET books_data == get_data(v, store)
        books == [i \in DOMAIN books_data |-> dict_to_entity(books_data[i])]
        filtered_books == apply_filters(books, filters)
    IN  Slice(filtered_books, filters.offset, filters.offset + filters.limit)

\* count_total: the same pipeline without the slice.
count_total(v, store, filters) ==
    LET books_data == get_data(v, store)
        books == [i \in DOMAIN books_data |-> dict_to_entity(books_data[i])]
    IN  Len(apply_filters(books, filters))

\* The indexes of the records whose id is book_id.
IndexesOf(books_data, book_id) ==
    {i \in DOMAIN books_data : DictGet(books_data[i], "id", NoId) = book_id}

\* get_by_id: the first record with the id, as an entity, or None.
get_by_id(v, store, book_id) ==
    LET books_data == get_data(v, store)
        hits == IndexesOf(books_data, book_id)
    IN  IF hits = {} THEN None
        ELSE Some(dict_to_entity(books_data[Min(hits)]))

\* A variant of create that puts the new record before the stored ones.
create_prepending(v, store, book, t) ==
    LET books_data == get_data(v, store)
        created == [book EXCEPT !.id = generate_next_id(books_data)]
        written == <<entity_to_dict(created)>> \o books_data
        saved == save_data(v, store, written, t)
    IN  [raised  |-> saved.raised,
         value   |-> IF saved.raised THEN None ELSE Some(created),
         store   |-> saved.store,
         saves   |-> 1,
         written |-> Some(written)]

\* create: the next id, the record appended, the whole collection saved.
\* Gives the entity returned (None when save_data raised), the store after,
\* the number of save_data calls and the list save_data was given.
create(v, store, book, t) ==
    LET books_data == get_data(v, store)
        created == [book EXCEPT !.id = generate_next_id(books_data)]
        written == Append(books_data, entity_to_dict(created))
        saved == save_data(v, store, written, t)
    IN  [raised  |-> saved.raised,
         value   |-> IF saved.raised THEN None ELSE Some(created),
         store   |-> saved.store,
         saves   |-> 1,
         written |-> Some(written)]

\* update: the first record with the id replaced by the entity's dict, its
\* id forced to book_id, and the collection saved; None and no save when no
\* record has the id.
update(v, store, book_id, book, t) ==
    LET books_data == get_data(v, store)
        hits == IndexesOf(books_data, book_id)
    IN  IF hits = {}
        THEN [raised |-> FALSE, value |-> None, store |-> store, saves |-> 0,
              written |-> None]
        ELSE LET i == Min(hits)
                 updated == [book EXCEPT !.id = book_id]
                 written == [books_data EXCEPT ![i] = entity_to_dict(updated)]
                 saved == save_data(v, store, written, t)
             IN  [raised  |-> saved.raised,
                  value   |-> IF saved.raised THEN None ELSE Some(updated),
                  store   |-> saved.store,
                  saves   |-> 1,
                  written |-> Some(written)]

\* A variant of delete that writes the list back whether or not it shrank.
delete_saving_always(v, store, book_id, t) ==
    LET books_data == get_data(v, store)
        kept == SelectSeq(books_data, LAMBDA b :
                    DictGet(b, "id", NoId) # book_id)
        saved == save_data(v, store, kept, t)
    IN  [raised |-> saved.raised,
         value |-> ~saved.raised /\ Len(kept) < Len(books_data),
         store |-> saved.store, saves |-> 1, written |-> Some(kept)]

\* A variant of delete that drops the record at position book_id of the
\* list instead of the records whose id is book_id.
delete_by_position(v, store, book_id, t) ==
    LET books_data == get_data(v, store)
        kept == [i \in 1..(Len(books_data)
                            - (IF book_id \in DOMAIN books_data THEN 1 ELSE 0))
                    |-> IF i < book_id THEN books_data[i] ELSE books_data[i + 1]]
    IN  IF Len(kept) < Len(books_data)
        THEN LET saved == save_data(v, store, kept, t)
             IN  [raised |-> saved.raised, value |-> ~saved.raised,
                  store |-> saved.store, saves |-> 1, written |-> Some(kept)]
        ELSE [raised |-> FALSE, value |-> FALSE, store |-> store, saves |-> 0,
              written |-> None]

\* delete: the records of another id kept; saved only if the list shrank.
delete(v, store, book_id, t) ==
    LET books_data == get_data(v, store)
        kept == SelectSeq(books_data, LAMBDA b :
                    DictGet(b, "id", NoId) # book_id)
    IN  IF Len(kept) < Len(books_data)
        THEN LET saved == save_data(v, store, kept, t)
             IN  [raised |-> saved.raised, value |-> ~saved.raised,
                  store |-> saved.store, saves |-> 1, written |-> Some(kept)]
        ELSE [raised |-> FALSE, value |-> FALSE, store |-> store, saves |-> 0,
              written |-> None]

----------------------------------------------------------------------------
(* BookService.                                                            *)

\* Book(...) in entity_to_model: the fields of the API model, which has no
\* subjects.
entity_to_model(entity) ==
    [id                |-> entity.id,
     title             |-> entity.title,
     author            |-> entity.author,
     year_of_releasing |-> entity.year_of_releasing,
     genre             |-> entity.genre,
     amount_of_pages   |-> entity.amount_of_pages,
     status            |-> entity.status,
     isbn              |-> entity.isbn,
     cover_url         |-> entity.cover_url,
     description       |-> entity.description,
     created_at        |-> entity.created_at,
     updated_at        |-> entity.updated_at]

\* model_to_entity at instant t: no id, no cover, no subjects yet.
model_to_entity(model, t) ==
    [id                |-> NoId,
     title             |-> model.title,
     author            |-> model.author,
     year_of_releasing |-> model.year_of_releasing,
     genre             |-> model.genre,
     amount_of_pages   |-> model.amount_of_pages,
     status            |-> model.status,
     isbn              |-> model.isbn,
     cover_url         |-> None,
     description       |-> model.description,
     subjects          |-> <<>>,
     created_at        |-> Some(t),
     updated_at        |-> Some(t)]

\* The filters _validate_book_creation builds: title and author, limit 1.
ValidationFilters(book_data) ==
    [title  |-> Some(book_data.title),
     author |-> Some(book_data.author),
     status |-> None,
     genre  |-> None,
     offset |-> 0,
     limit  |-> 1]

\* _validate_book_creation: the duplicate check over what get_all returned,
\* then the two year checks.  Gives the error raised, or "ok".
validate_book_creation(v, store, book_data, current_year) ==
    LET existing_books == get_all(v, store, ValidationFilters(book_data))
    IN  IF \E i \in DOMAIN existing_books :
                /\ Lower(existing_books[i].title) = Lower(book_data.title)
                /\ Lower(existing_books[i].author) = Lower(book_data.author)
        THEN "BookAlreadyExists"
        ELSE IF book_data.year_of_releasing > current_year THEN "InvalidBookData"
        ELSE IF book_data.year_of_releasing < 1400 THEN "InvalidBookData"
        ELSE "ok"

\* A variant of _enrich_with_metadata that, when get_book_metadata raises,
\* falls back to the empty metadata and writes it into the entity.
enrich_with_metadata_defaulting(book_entity, meta) ==
    IF meta.raised
    THEN [book_entity EXCEPT !.cover_url = None, !.description = Some(""),
                             !.subjects = <<>>]
    ELSE LET metadata == meta.metadata
             cover == DictGet(metadata, "cover_url", None)
             descr == DictGet(metadata, "description", None)
             isbn  == DictGet(metadata, "isbn", None)
             subj  == DictGet(metadata, "subjects", <<>>)
         IN  [book_entity EXCEPT
                !.cover_url   = IF ~Truthy(@) /\ Truthy(cover) THEN cover ELSE @,
                !.description = IF ~Truthy(@) /\ Truthy(descr) THEN descr ELSE @,
                !.isbn        = IF ~Truthy(@) /\ Truthy(isbn) THEN isbn ELSE @,
                !.subjects    = IF subj # <<>> THEN subj ELSE @]

\* A variant of _enrich_with_metadata that takes every value the metadata
\* has, whether or not the entity has one.
enrich_with_metadata_overwriting(book_entity, meta) ==
    IF meta.raised THEN book_entity
    ELSE LET metadata == meta.metadata
             cover == DictGet(metadata, "cover_url", None)
             descr == DictGet(metadata, "description", None)
             isbn  == DictGet(metadata, "isbn", None)
             subj  == DictGet(metadata, "subjects", <<>>)
         IN  [book_entity EXCEPT
                !.cover_url   = IF Truthy(cover) THEN cover ELSE @,
                !.description = IF Truthy(descr) THEN descr ELSE @,
                !.isbn        = IF Truthy(isbn) THEN isbn ELSE @,
                !.subjects    = IF subj # <<>> THEN subj ELSE @]

\* _enrich_with_metadata: meta.raised is get_book_metadata raising (the
\* entity is left as it is), meta.metadata the dict it returned otherwise.
enrich_with_metadata(book_entity, meta) ==
    IF meta.raised THEN book_entity
    ELSE LET metadata == meta.metadata
             cover == DictGet(metadata, "cover_url", None)
             descr == DictGet(metadata, "description", None)
             isbn  == DictGet(metadata, "isbn", None)
             subj  == DictGet(metadata, "subjects", <<>>)
         IN  [book_entity EXCEPT
                !.cover_url   = IF ~Truthy(@) /\ Truthy(cover) THEN cover ELSE @,
                !.description = IF ~Truthy(@) /\ Truthy(descr) THEN descr ELSE @,
                !.isbn        = IF ~Truthy(@) /\ Truthy(isbn) THEN isbn ELSE @,
                !.subjects    = IF subj # <<>> THEN subj ELSE @]

\* A variant of the field loop of update_book that replaces the record: the
\* fields of BookUpdate that were not sent are set to None.
apply_update_replacing(existing_entity, update_data, t) ==
    [f \in DOMAIN existing_entity |->
        IF f = "updated_at" THEN Some(t)
        ELSE IF f \in DOMAIN update_data THEN update_data[f]
        ELSE IF f \in {"isbn", "description"} THEN None
        ELSE existing_entity[f]]

\* The entity with the fields of an update applied: data.model_dump(
\* exclude_unset=True) holds the fields that were sent, and each is set.
apply_update(existing_entity, update_data, t) ==
    [f \in DOMAIN existing_entity |->
        IF f = "updated_at" THEN Some(t)
        ELSE IF f \in DOMAIN update_data THEN update_data[f]
        ELSE existing_entity[f]]

----------------------------------------------------------------------------
(* The inputs of the calls.                                                *)

\* BookCreate, with the genre, the pages and the description held fixed.
MkBookCreate(title, author, year, status, isbn) ==
    [title             |-> title,
     author            |-> author,
     year_of_releasing |-> year,
     genre             |-> <<"s">>,
     amount_of_pages   |-> 412,
     status            |-> status,
     isbn              |-> isbn,
     description       |-> None]

\* The year datetime.now(timezone.utc).year returns.
ThisYear == 2026

\* Requests a client may send: "d" by "h", the same in capitals (sent with
\* an empty description), a title that contains "d" (sent with an isbn and
\* a description), and years at and beyond the limits 1400 and ThisYear and
\* outside what BookCreate admits.
BookCreateCandidates ==
    {MkBookCreate(<<"d">>, <<"h">>, 1400, "available", None),
     [MkBookCreate(<<"D">>, <<"H">>, 1965, "borrowed", None)
        EXCEPT !.description = Some("")],
     [MkBookCreate(<<"d", "m">>, <<"h">>, ThisYear, "available", Some("isbnA"))
        EXCEPT !.description = Some("descA")],
     MkBookCreate(<<"d">>, <<"h">>, 1399, "available", None),
     MkBookCreate(<<"e">>, <<"h">>, ThisYear + 1, "reserved", None),
     MkBookCreate(<<"e">>, <<"h">>, 3000, "available", None),
     MkBookCreate(<<"e">>, <<"h">>, 999, "available", None)}

\* The Field constraints of BookCreate that the candidates can break.
BookCreateValid(m) ==
    /\ Len(m.title) >= 1
    /\ Len(m.author) >= 1
    /\ m.year_of_releasing >= 1000 /\ m.year_of_releasing <= 2030
    /\ Len(m.genre) >= 1
    /\ m.amount_of_pages > 0 /\ m.amount_of_pages <= 10000
    /\ m.status \in BookStatus

\* BookUpdate: the fields that were sent, with their values.
BookUpdates ==
    {<<>>,
     [title |-> <<"D">>, status |-> "borrowed"]}

\* What get_book_metadata may do: raise, return _empty_metadata(), or
\* return the metadata of a first candidate.
MetadataOutcomes ==
    {[raised |-> TRUE, metadata |-> <<>>],
     [raised |-> FALSE,
      metadata |-> [cover_url |-> None, description |-> Some(""), subjects |-> <<>>]],
     [raised |-> FALSE,
      metadata |-> [cover_url |-> Some("coverM"), description |-> Some("descM"),
                    subjects |-> <<"subjM">>, isbn |-> Some("isbnM")]]}

\* The ids a caller asks for.
BookIds == 1..MaxClock

----------------------------------------------------------------------------
(* The calls of the service, one request at a time.                        *)

\* The record of a call: its name and input (id, arg), how it ended
\* (outcome: "ok", the error raised, or the None or False returned), what
\* it returned (result: the API model; entity: the repository's entity;
\* items, total, has_next: a page), the collection before it, the number
\* of save_data calls it made and the list the last of them was given, and
\* what the metadata service did if the call reached it (meta), and for a
\* call of the storage what went wrong in the backend (fault).  For a
\* request, the HTTP status and the message of the response.
NoCall ==
    [op |-> "none", id |-> NoId, arg |-> None, current_year |-> 0,
     outcome |-> "none", result |-> None, entity |-> None,
     items |-> <<>>, total |-> 0, has_next |-> FALSE,
     before |-> <<>>, saves |-> 0, written |-> None, meta |-> None,
     fault |-> "none", status |-> 0, message |-> "none"]

\* The messages of a response: "none" for a body that is not an error,
\* "detail" for the text the service gave its own error, "validation" for
\* the framework's report on a payload, "raw" for the text of an exception
\* of the backend, and the texts the code spells out.
FixedTexts ==
    {"An error occurred while processing your request",
     "Data storage is temporarily unavailable",
     "External service is temporarily unavailable",
     "An unexpected error occurred"}

\* What leaves an endpoint: a response (raised = "none"), an HTTPException
\* with its status and detail, or the exception the service let through.
Returned(code) == [raised |-> "none", status |-> code, message |-> "none"]

HTTPException(code, detail) ==
    [raised |-> "HTTPException", status |-> code, message |-> detail]

Raised(exc) == [raised |-> exc, status |-> 0, message |-> "raw"]

\* The endpoints of the router, from the outcome of the service call.  An
\* outcome "StorageError" is the exception of the backend, re-raised by the
\* storage client as it came; "ValidationError" is the ValueError of
\* BookStatus(entity.status).
controller(op, outcome) ==
    CASE outcome = "RequestValidationError" -> HTTPException(422, "validation")
      [] outcome = "StorageError" -> Raised("Exception")
      [] outcome = "ValidationError" -> Raised("ValueError")
      [] op = "create_book" /\ outcome = "ok" -> Returned(201)
      [] op = "create_book" /\ outcome = "BookAlreadyExists" ->
            HTTPException(409, "detail")
      [] op = "create_book" /\ outcome = "InvalidBookData" ->
            HTTPException(400, "detail")
      [] op = "get_filtered_books" /\ outcome = "ok" -> Returned(200)
      [] op = "get_book_by_id" /\ outcome = "ok" -> Returned(200)
      [] op = "get_book_by_id" /\ outcome = "None" ->
            HTTPException(404, "Book not found")
      [] op = "update_book" /\ outcome = "ok" -> Returned(200)
      [] op = "update_book" /\ outcome = "None" ->
            HTTPException(404, "Book not found")
      [] op = "update_book" /\ outcome = "BookNotFound" ->
            HTTPException(404, "detail")
      [] op = "delete_book" /\ outcome \in {"ok", "False"} -> Returned(204)
      [] op = "delete_book" /\ outcome = "BookNotFound" ->
            HTTPException(404, "detail")
      [] OTHER -> Raised(outcome \o "Error")

\* A variant of dispatch that answers an unexpected exception with the
\* exception's own text.
dispatch_leaking(r) ==
    CASE r.raised \in {"none", "HTTPException"} ->
            [status |-> r.status, message |-> r.message]
      [] r.raised = "BookAlreadyExistsError" ->
            [status |-> 409, message |-> "detail"]
      [] r.raised = "BookNotFoundError" ->
            [status |-> 404, message |-> "detail"]
      [] r.raised = "InvalidBookDataError" ->
            [status |-> 400, message |-> "detail"]
      [] r.raised = "BookServiceError" ->
            [status |-> 500,
             message |-> "An error occurred while processing your request"]
      [] r.raised = "StorageError" ->
            [status |-> 503,
             message |-> "Data storage is temporarily unavailable"]
      [] r.raised \in {"ApiClientError", "MetadataClientError"} ->
            [status |-> 503,
             message |-> "External service is temporarily unavailable"]
      [] OTHER -> [status |-> 500, message |-> r.message]

\* ErrorHandlingMiddleware.dispatch: a response and an HTTPException pass
\* (the framework answers an HTTPException with its status and detail); an
\* exception is answered by its class, any other class with 500 and a text
\* of the middleware.
dispatch(r) ==
    CASE r.raised \in {"none", "HTTPException"} ->
            [status |-> r.status, message |-> r.message]
      [] r.raised = "BookAlreadyExistsError" ->
            [status |-> 409, message |-> "detail"]
      [] r.raised = "BookNotFoundError" ->
            [status |-> 404, message |-> "detail"]
      [] r.raised = "InvalidBookDataError" ->
            [status |-> 400, message |-> "detail"]
      [] r.raised = "BookServiceError" ->
            [status |-> 500,
             message |-> "An error occurred while processing your request"]
      [] r.raised = "StorageError" ->
            [status |-> 503,
             message |-> "Data storage is temporarily unavailable"]
      [] r.raised \in {"ApiClientError", "MetadataClientError"} ->
            [status |-> 503,
             message |-> "External service is temporarily unavailable"]
      [] OTHER -> [status |-> 500, message |-> "An unexpected error occurred"]

\* The call as the client of the API sees it: the endpoint inside the
\* middleware.
Respond(call) ==
    LET response == dispatch(controller(call.op, call.outcome))
    IN  [call EXCEPT !.status = response.status,
                     !.message = response.message]

Init ==
    /\ variant \in Variants
    /\ data = <<>>
    /\ now = 1
    /\ last = NoCall
    /\ tasks = NoTasks
    /\ http = NoHttp
\* A variant of create_book that persists the record first and validates
\* afterwards.
create_book_validating_last(book_data, meta) ==
    LET current_year == ThisYear
        verdict == validate_book_creation(variant, data, book_data, current_year)
        book_entity == enrich_with_metadata(model_to_entity(book_data, now), meta)
        r == create(variant, data, book_entity, now)
        call == [NoCall EXCEPT !.op = "create_book", !.arg = Some(book_data),
                               !.current_year = current_year, !.before = data]
    IN  /\ now <= MaxClock
        /\ Len(data) < MaxBooks
        /\ data' = r.store
        /\ now' = now + 1
        /\ last' = Respond([call EXCEPT
                        !.outcome = IF r.raised THEN "StorageError" ELSE verdict,
                        !.entity = r.value,
                        !.result = IF r.raised \/ verdict # "ok" THEN None
                                   ELSE Some(entity_to_model(r.value[1])),
                        !.saves = r.saves, !.written = r.written,
                        !.meta = Some(meta)])

\* create_book(book_data): validate, convert, enrich, create.
create_book(book_data, meta) ==
    LET current_year == ThisYear
        verdict == validate_book_creation(variant, data, book_data, current_year)
        book_entity == enrich_with_metadata(model_to_entity(book_data, now), meta)
        r == create(variant, data, book_entity, now)
        call == [NoCall EXCEPT !.op = "create_book", !.arg = Some(book_data),
                               !.current_year = current_year, !.before = data]
    IN  IF verdict # "ok"
        THEN /\ data' = data
             /\ now' = now
             /\ last' = Respond([call EXCEPT !.outcome = verdict])
        ELSE /\ now <= MaxClock
             /\ Len(data) < MaxBooks
             /\ data' = r.store
             /\ now' = now + 1
             /\ last' = Respond([call EXCEPT
                            !.outcome = IF r.raised THEN "StorageError" ELSE "ok",
                            !.entity = r.value,
                            !.result = IF r.raised THEN None
                                       ELSE Some(entity_to_model(r.value[1])),
                            !.saves = r.saves, !.written = r.written,
                            !.meta = Some(meta)])

\* POST /books: the payload is validated as a BookCreate before the
\* endpoint body runs; a payload that fails is answered without a call of
\* the service.
CreateBook ==
    /\ \E payload \in BookCreateCandidates :
          IF BookCreateValid(payload)
          THEN \E meta \in MetadataOutcomes : create_book(payload, meta)
          ELSE /\ last' = Respond([NoCall EXCEPT
                              !.op = "create_book", !.arg = Some(payload),
                              !.before = data,
                              !.outcome = "RequestValidationError"])
               /\ UNCHANGED <<data, now>>
    /\ UNCHANGED <<variant, tasks, http>>

\* get_book_by_id(book_id)
get_book_by_id(book_id) ==
    LET entity == get_by_id(variant, data, book_id)
    IN  /\ last' = Respond([NoCall EXCEPT
                        !.op = "get_book_by_id", !.id = book_id, !.before = data,
                        !.outcome = IF entity = None THEN "None" ELSE "ok",
                        !.entity = entity,
                        !.result = IF entity = None THEN None
                                   ELSE Some(entity_to_model(entity[1]))])
        /\ UNCHANGED <<data, now>>

GetBookById ==
    /\ \E book_id \in BookIds : get_book_by_id(book_id)
    /\ UNCHANGED <<variant, tasks, http>>

\* update_book(book_id, data): load, set the fields sent, stamp, update.
update_book(book_id, update_data) ==
    LET existing_entity == get_by_id(variant, data, book_id)
        changed == apply_update(existing_entity[1], update_data, now)
        r == update(variant, data, book_id, changed, now)
        call == [NoCall EXCEPT !.op = "update_book", !.id = book_id,
                               !.arg = Some(update_data), !.before = data]
    IN  IF existing_entity = None
        THEN /\ data' = data
             /\ now' = now
             /\ last' = Respond([call EXCEPT !.outcome = "BookNotFound"])
        ELSE /\ now <= MaxClock
             /\ data' = r.store
             /\ now' = now + 1
             /\ last' = Respond([call EXCEPT
                            !.outcome = IF r.raised THEN "StorageError"
                                        ELSE IF r.value = None THEN "None"
                                        ELSE "ok",
                            !.entity = r.value,
                            !.result = IF r.value = None THEN None
                                       ELSE Some(entity_to_model(r.value[1])),
                            !.saves = r.saves, !.written = r.written])

UpdateBook ==
    /\ \E book_id \in BookIds, update_data \in BookUpdates :
            update_book(book_id, update_data)
    /\ UNCHANGED <<variant, tasks, http>>

\* delete_book(book_id): BookNotFound unless get_by_id finds it, then delete.
\* A variant of delete_book that does not look the record up first.
delete_book_unchecked(book_id) ==
    LET r == delete(variant, data, book_id, now)
    IN  /\ data' = r.store
        /\ last' = Respond([NoCall EXCEPT
                        !.op = "delete_book", !.id = book_id, !.before = data,
                        !.outcome = IF r.raised THEN "StorageError"
                                    ELSE IF r.value THEN "ok" ELSE "False",
                        !.entity = get_by_id(variant, data, book_id),
                        !.saves = r.saves, !.written = r.written])
        /\ UNCHANGED now

delete_book(book_id) ==
    LET existing_entity == get_by_id(variant, data, book_id)
        r == delete(variant, data, book_id, now)
        call == [NoCall EXCEPT !.op = "delete_book", !.id = book_id,
                               !.before = data]
    IN  IF existing_entity = None
        THEN /\ data' = data
             /\ last' = Respond([call EXCEPT !.outcome = "BookNotFound"])
             /\ UNCHANGED now
        ELSE /\ data' = r.store
             /\ last' = Respond([call EXCEPT
                            !.outcome = IF r.raised THEN "StorageError"
                                        ELSE IF r.value THEN "ok" ELSE "False",
                            !.entity = existing_entity,
                            !.saves = r.saves, !.written = r.written])
             /\ UNCHANGED now

DeleteBook ==
    /\ \E book_id \in BookIds : delete_book(book_id)
    /\ UNCHANGED <<variant, tasks, http>>

Next ==
    \/ CreateBook
    \/ GetBookById
    \/ UpdateBook
    \/ DeleteBook

Spec == Init /\ [][Next]_vars

----------------------------------------------------------------------------
(* Queries and repository calls on a collection that is already stored     *)
(* (SpecRepo).                                                             *)

\* A stored record as a caller of the repository may have written it; the
\* timestamps are None, as in the fixtures of the tests.
MkRecord(id, title, author, genre, status) ==
    [id                |-> id,
     title             |-> title,
     author            |-> author,
     year_of_releasing |-> 1965,
     genre             |-> genre,
     amount_of_pages   |-> 412,
     status            |-> status,
     isbn              |-> None,
     cover_url         |-> None,
     description       |-> None,
     subjects          |-> <<>>,
     created_at        |-> None,
     updated_at        |-> None]

\* A mixed collection: titles and genres that differ in case, and a status
\* that differs from "borrowed" only in case.
Shelf ==
    <<MkRecord(1, <<"d">>, <<"h">>, <<"s">>, "available"),
      MkRecord(2, <<"D", "m">>, <<"H">>, <<"S", "f">>, "borrowed"),
      MkRecord(3, <<"e">>, <<"k">>, <<"f">>, "BORROWED"),
      MkRecord(4, <<"m", "d">>, <<"h">>, <<"s">>, "borrowed")>>

\* A collection in which two records have one id.
Twins ==
    <<MkRecord(1, <<"d">>, <<"h">>, <<"s">>, "available"),
      MkRecord(2, <<"e">>, <<"k">>, <<"f">>, "borrowed"),
      MkRecord(1, <<"m">>, <<"h">>, <<"s">>, "borrowed")>>

\* The 25 records of the pagination example, with ids 101..125.
Catalog25 ==
    [i \in 1..25 |-> MkRecord(100 + i, <<"d">>, <<"h">>, <<"s">>,
                              IF i <= 20 THEN "available" ELSE "borrowed")]

StoredCollections == {<<>>, Shelf, Twins, Catalog25}

\* BookFilters
MkFilters(title, author, status, genre, offset, limit) ==
    [title |-> title, author |-> author, status |-> status, genre |-> genre,
     offset |-> offset, limit |-> limit]

\* The Field constraints of BookFilters.
BookFiltersValid(f) ==
    /\ f.title = None \/ Len(f.title[1]) >= 1
    /\ f.author = None \/ Len(f.author[1]) >= 1
    /\ f.genre = None \/ Len(f.genre[1]) >= 1
    /\ f.status = None \/ f.status[1] \in BookStatus
    /\ f.offset >= 0
    /\ f.limit >= 1 /\ f.limit <= 100

\* The queries: every combination of the four filters on the default page,
\* and other pages with no filter or one.
BookFiltersCandidates ==
    {MkFilters(t, a, st, g, 0, 20) :
        t \in {None, Some(<<"D">>)}, a \in {None, Some(<<"H">>)},
        st \in {None, Some("borrowed")}, g \in {None, Some(<<"S">>)}}
    \cup
    {MkFilters(t, None, None, None, page[1], page[2]) :
        t \in {None, Some(<<"D">>)},
        page \in {<<20, 20>>, <<1, 2>>, <<2, 1>>, <<0, 1>>, <<4, 20>>, <<0, 0>>}}

BookFiltersSet == {f \in BookFiltersCandidates : BookFiltersValid(f)}

\* A variant of PaginatedBooks.create whose has_next is true up to and
\* including the last page.
PaginatedBooks_create_inclusive(items, total, offset, limit) ==
    [items |-> items, total |-> total, offset |-> offset, limit |-> limit,
     has_next |-> offset + limit <= total]

\* PaginatedBooks.create
PaginatedBooks_create(items, total, offset, limit) ==
    [items |-> items, total |-> total, offset |-> offset, limit |-> limit,
     has_next |-> offset + limit < total]

InitRepo ==
    /\ variant \in Variants
    /\ \E c \in StoredCollections :
          LET saved == save_data(variant, <<>>, c, 1)
          IN  ~saved.raised /\ data = saved.store
    /\ now = 2
    /\ last = NoCall
    /\ tasks = NoTasks
    /\ http = NoHttp

\* BookRepository.get_all(filters)
GetAll ==
    /\ \E filters \in BookFiltersSet :
          last' = [NoCall EXCEPT
                      !.op = "get_all", !.arg = Some(filters), !.before = data,
                      !.outcome = "ok",
                      !.items = get_all(variant, data, filters)]
    /\ UNCHANGED <<variant, data, now, tasks, http>>

\* BookRepository.count_total(filters)
CountTotal ==
    /\ \E filters \in BookFiltersSet :
          last' = [NoCall EXCEPT
                      !.op = "count_total", !.arg = Some(filters),
                      !.before = data, !.outcome = "ok",
                      !.total = count_total(variant, data, filters)]
    /\ UNCHANGED <<variant, data, now, tasks, http>>

\* The field constraints of Book, which the Book(...) of entity_to_model
\* checks.  Every entity that create_book or update_book stores satisfies
\* them; a record written to the storage by another caller may not.
BookValid(model) ==
    /\ Len(model.title) >= 1
    /\ Len(model.author) >= 1
    /\ model.year_of_releasing >= 1000 /\ model.year_of_releasing <= 2030
    /\ Len(model.genre) >= 1
    /\ model.amount_of_pages > 0 /\ model.amount_of_pages <= 10000
    /\ model.status \in BookStatus

\* BookService.get_filtered_books(filters): get_all, count_total, the
\* entities as API models (a ValidationError if one of them is not a valid
\* Book), PaginatedBooks.create.
get_filtered_books(filters) ==
    LET entities == get_all(variant, data, filters)
        total_count == count_total(variant, data, filters)
        books == [i \in DOMAIN entities |-> entity_to_model(entities[i])]
        page == PaginatedBooks_create(books, total_count, filters.offset,
                                      filters.limit)
        call == [NoCall EXCEPT !.op = "get_filtered_books",
                               !.arg = Some(filters), !.before = data]
    IN  /\ IF \A i \in DOMAIN books : BookValid(books[i])
           THEN last' = Respond([call EXCEPT
                            !.outcome = "ok",
                            !.items = page.items, !.total = page.total,
                            !.has_next = page.has_next])
           ELSE last' = Respond([call EXCEPT !.outcome = "ValidationError"])
        /\ UNCHANGED <<data, now>>

GetFilteredBooks ==
    /\ \E filters \in BookFiltersSet : get_filtered_books(filters)
    /\ UNCHANGED <<variant, tasks, http>>

\* BookRepository.delete(book_id), called on the repository itself.
Delete ==
    /\ \E book_id \in BookIds :
          LET r == delete(variant, data, book_id, now)
          IN  /\ data' = r.store
              /\ last' = [NoCall EXCEPT
                            !.op = "delete", !.id = book_id, !.before = data,
                            !.outcome = IF r.raised THEN "StorageError"
                                        ELSE IF r.value THEN "True" ELSE "False",
                            !.saves = r.saves, !.written = r.written]
    /\ UNCHANGED <<variant, now, tasks, http>>

NextRepo ==
    \/ GetAll
    \/ CountTotal
    \/ GetFilteredBooks
    \/ Delete

SpecRepo == InitRepo /\ [][NextRepo]_vars

----------------------------------------------------------------------------
(* Properties of the service, one request at a time (Spec).                *)

\* Some record of the collection has the (title, author) of book_data,
\* compared case-insensitively.
StoredPair(store, book_data) ==
    \E i \in DOMAIN store :
        /\ Lower(store[i]["title"]) = Lower(book_data.title)
        /\ Lower(store[i]["author"]) = Lower(book_data.author)

\* Some record of the collection has the id.
StoredId(store, book_id) == \E i \in DOMAIN store : store[i]["id"] = book_id

\* C1: create_book with a (title, author) that a stored record already has,
\* compared case-insensitively, fails with BookAlreadyExists, whatever else
\* the collection holds and in whatever order.
C1_DuplicateRejected ==
    (last.op = "create_book" /\ StoredPair(last.before, last.arg[1]))
        => last.outcome = "BookAlreadyExists"

\* C2: no two stored records have the same (title, author), compared
\* case-insensitively.
C2_UniquePairs ==
    \A i, j \in DOMAIN data :
        i # j => ~(/\ Lower(data[i]["title"]) = Lower(data[j]["title"])
                   /\ Lower(data[i]["author"]) = Lower(data[j]["author"]))

\* C3: the stored records have pairwise distinct ids, and the id a
\* successful create_book returns is held by exactly one stored record.
C3_UniqueIds ==
    /\ \A i, j \in DOMAIN data : i # j => data[i]["id"] # data[j]["id"]
    /\ (last.op = "create_book" /\ last.outcome = "ok")
        => Cardinality(IndexesOf(data, last.result[1].id)) = 1

\* A create that succeeded on a collection from which a record had been
\* deleted: the new id is beyond the number of records.
C3_Witness ==
    /\ last.op = "create_book" /\ last.outcome = "ok"
    /\ Len(data) >= 2
    /\ last.result[1].id > Len(data)

\* The fields that a stored entity and its read-back are compared on.
RoundTripFields ==
    {"title", "author", "year_of_releasing", "genre", "amount_of_pages",
     "status", "isbn", "cover_url", "description", "subjects"}

\* C4: the entity that a successful create or update stored is read back by
\* get_by_id with the same title, author, year, genre, pages, status, isbn,
\* cover_url, description and subjects, whatever the storage variant.
C4_RoundTrip ==
    (last.op \in {"create_book", "update_book"} /\ last.outcome = "ok")
        => LET got == get_by_id(variant, data, last.entity[1].id)
           IN  /\ got # None
               /\ \A f \in RoundTripFields : got[1][f] = last.entity[1][f]

\* C8: update_book and delete_book on an id that no stored record holds
\* signal BookNotFound and leave the stored collection as it was, without a
\* call of save_data.
C8_MissingId ==
    (last.op \in {"update_book", "delete_book"} /\ ~StoredId(last.before, last.id))
        => /\ last.outcome = "BookNotFound"
           /\ data = last.before
           /\ last.saves = 0
           /\ last.written = None

C8_Witness ==
    /\ last.op = "delete_book"
    /\ Len(last.before) >= 1
    /\ ~StoredId(last.before, last.id)
    /\ last.outcome = "BookNotFound"

\* The records of the collection other than those with the id are read back
\* from `after` as they are read from `before`.
OthersRetrievable(v, before, after, book_id) ==
    \A i \in DOMAIN before :
        before[i]["id"] # book_id
            => /\ get_by_id(v, after, before[i]["id"]) # None
               /\ get_by_id(v, after, before[i]["id"])
                    = get_by_id(v, before, before[i]["id"])

\* C9: once delete_book(id) has succeeded no stored record holds the id and
\* every other record is read back by its id as before; an id that no record
\* holds comes to be held only by a successful create_book that returns it;
\* and get_book_by_id reports not found for every id that no record holds.
C9_DeletedStaysGone ==
    /\ []((last.op = "delete_book" /\ last.outcome = "ok")
            => /\ ~StoredId(data, last.id)
               /\ OthersRetrievable(variant, last.before, data, last.id))
    /\ []((last.op = "get_book_by_id" /\ ~StoredId(data, last.id))
            => last.outcome = "None" /\ last.result = None)
    /\ [][\A book_id \in BookIds :
            (~StoredId(data, book_id) /\ StoredId(data', book_id))
                => /\ last'.op = "create_book"
                   /\ last'.outcome = "ok"
                   /\ last'.result[1].id = book_id]_vars

\* A delete_book that succeeded on a collection of several records, one of
\* them after the deleted one.
C9_Witness ==
    /\ last.op = "delete_book"
    /\ last.outcome = "ok"
    /\ Len(last.before) >= 2
    /\ \E i \in DOMAIN data : data[i]["id"] > last.id

\* C10: a creation request whose year_of_releasing is above the current UTC
\* year or below 1400 is rejected with InvalidBookData, and no record is
\* stored.
C10_YearRejected ==
    (/\ last.op = "create_book"
     /\ \/ last.arg[1].year_of_releasing > ThisYear
        \/ last.arg[1].year_of_releasing < 1400)
        => /\ last.outcome = "InvalidBookData"
           /\ data = last.before

----------------------------------------------------------------------------
(* Properties of the queries and of the repository (SpecRepo).             *)

\* The entity satisfies every filter that is set.
Matches(e, f) ==
    /\ f.title = None \/ Contains(Lower(f.title[1]), Lower(e.title))
    /\ f.author = None \/ Contains(Lower(f.author[1]), Lower(e.author))
    /\ f.genre = None \/ Contains(Lower(f.genre[1]), Lower(e.genre))
    /\ f.status = None \/ e.status = f.status[1]

\* The positions in the stored collection of the records that match.
MatchingIndexes(store, f) ==
    {i \in DOMAIN store : Matches(dict_to_entity(store[i]), f)}

\* The k-th smallest number of a set of numbers.
KthIndex(S, k) == CHOOSE i \in S : Cardinality({j \in S : j <= i}) = k

\* The length of a page that starts after `offset` of n matches.
PageLength(n, offset, limit) ==
    IF offset >= n THEN 0
    ELSE IF n - offset < limit THEN n - offset ELSE limit

NoFilters(f) ==
    f.title = None /\ f.author = None /\ f.status = None /\ f.genre = None

\* C5: get_filtered_books answers unless a record of the page is not a
\* valid Book; it returns as items the matches from position offset+1 on, at
\* most limit of them and in storage order (none when offset is at or beyond
\* their number), as total the number of matches whatever offset and limit
\* are, and has_next exactly when offset+limit < total; on 25 records with
\* no filter and limit 20 that is 20 items and has_next at offset 0, 5 items
\* and no has_next at offset 20.
C5_Pagination ==
    last.op = "get_filtered_books"
        => LET f == last.arg[1]
               M == MatchingIndexes(last.before, f)
               n == Cardinality(M)
               expected ==
                   [k \in 1..PageLength(n, f.offset, f.limit) |->
                       entity_to_model(dict_to_entity(
                           last.before[KthIndex(M, f.offset + k)]))]
           IN  /\ data = last.before
               /\ last.outcome = "ok"
                    <=> \A k \in DOMAIN expected : expected[k].status \in BookStatus
               /\ last.outcome = "ok"
                    => /\ last.items = expected
                       /\ last.total = n
                       /\ last.has_next <=> (f.offset + f.limit < n)
               /\ (Len(last.before) = 25 /\ NoFilters(f) /\ f.limit = 20)
                    => /\ last.outcome = "ok"
                       /\ last.total = 25
                       /\ f.offset = 0 => (Len(last.items) = 20 /\ last.has_next)
                       /\ f.offset = 20 => (Len(last.items) = 5 /\ ~last.has_next)

\* The second page of the 25 records.
C5_Witness ==
    /\ last.op = "get_filtered_books"
    /\ Len(last.before) = 25
    /\ NoFilters(last.arg[1])
    /\ last.arg[1].offset = 20 /\ last.arg[1].limit = 20
    /\ Len(last.items) = 5
    /\ last.total = 25
    /\ ~last.has_next

\* C6: count_total counts, and get_all returns page by page and in storage
\* order, exactly the records that satisfy every filter that is set: the
\* filter text a case-insensitive substring of title, author, genre, the
\* status equal to the filter status.
C6_FilterSelection ==
    LET f == last.arg[1]
        M == MatchingIndexes(last.before, f)
        n == Cardinality(M)
    IN  /\ last.op = "count_total" => last.total = n
        /\ last.op = "get_all"
            => /\ Len(last.items) = PageLength(n, f.offset, f.limit)
               /\ \A k \in DOMAIN last.items :
                     last.items[k] =
                        dict_to_entity(last.before[KthIndex(M, f.offset + k)])

\* A status filter on a collection that holds the status in another case,
\* with a title filter in another case than the titles it selects.
C6_Witness ==
    /\ last.op = "get_all"
    /\ last.arg[1].status = Some("borrowed")
    /\ last.arg[1].title = Some(<<"D">>)
    /\ \E i \in DOMAIN last.before : last.before[i]["status"] = "BORROWED"
    /\ Len(last.items) = 2
    /\ last.items[1].title = <<"D", "m">>
    /\ last.items[2].title = <<"m", "d">>

\* C7: the repository's delete of an id that no record holds returns False
\* and does not call save_data; when records hold the id it calls save_data
\* once, with the other records as they were and in their order.
C7_RepositoryDelete ==
    last.op = "delete"
        => LET others == {i \in DOMAIN last.before :
                            last.before[i]["id"] # last.id}
           IN  IF Cardinality(others) = Len(last.before)
               THEN /\ last.outcome = "False"
                    /\ last.saves = 0
                    /\ last.written = None
                    /\ data = last.before
               ELSE /\ last.outcome = "True"
                    /\ last.saves = 1
                    /\ last.written # None
                    /\ Len(last.written[1]) = Cardinality(others)
                    /\ \A k \in DOMAIN last.written[1] :
                          last.written[1][k] = last.before[KthIndex(others, k)]

\* A delete that removed a record from between two others.
C7_Witness ==
    /\ last.op = "delete"
    /\ last.saves = 1
    /\ Len(last.before) >= 3
    /\ last.before[1]["id"] # last.id
    /\ last.before[Len(last.before)]["id"] # last.id
    /\ Len(data) = Len(last.before) - 1

----------------------------------------------------------------------------
(* Further properties of the service (Spec).                               *)

\* C11: a successful update_book(id, partial) gives the record of that id
\* the values of the fields that partial holds and a new updated_at, and
\* leaves its other fields, its id, its position and every other record as
\* they were; with an empty partial only updated_at changes.
C11_UpdateFrame ==
    (last.op = "update_book" /\ last.outcome = "ok")
        => /\ Len(data) = Len(last.before)
           /\ \A i \in DOMAIN data :
                IF last.before[i]["id"] # last.id
                THEN data[i] = last.before[i]
                ELSE /\ DOMAIN data[i] = DOMAIN last.before[i]
                     /\ \A f \in DOMAIN data[i] :
                          IF f = "updated_at"
                          THEN data[i][f] # last.before[i][f]
                          ELSE IF f \in DOMAIN last.arg[1]
                          THEN data[i][f] = last.arg[1][f]
                          ELSE data[i][f] = last.before[i][f]

\* An update of two fields of a record that has an isbn and a description,
\* in a collection of several records.
C11_Witness ==
    /\ last.op = "update_book"
    /\ last.outcome = "ok"
    /\ last.arg[1] # <<>>
    /\ Len(last.before) >= 2
    /\ \E i \in DOMAIN data :
          /\ data[i]["id"] = last.id
          /\ data[i]["isbn"] # None
          /\ data[i]["title"] # last.before[i]["title"]

\* C12: when create_book fails with BookAlreadyExists or InvalidBookData,
\* save_data has not been called and the stored collection is the one
\* before the call.
C12_FailBeforeMutation ==
    (last.op = "create_book"
        /\ last.outcome \in {"BookAlreadyExists", "InvalidBookData"})
        => /\ data = last.before
           /\ last.saves = 0
           /\ last.written = None

\* One of the two failures on a collection that holds records: a duplicate,
\* or a year beyond the limits with a pair that is not stored.
C12_Witness ==
    /\ last.op = "create_book"
    /\ Len(last.before) >= 1
    /\ \/ last.outcome = "BookAlreadyExists"
       \/ last.outcome = "InvalidBookData" /\ ~StoredPair(last.before, last.arg[1])

\* The fields of a record that the caller of create_book supplies.
CallerFields ==
    {"title", "author", "year_of_releasing", "genre", "amount_of_pages",
     "status", "isbn", "description"}

\* The record that a create_book call handed to the storage: the last of
\* the list given to save_data.
CreatedRecord == last.written[1][Len(last.written[1])]

C14_EnrichmentKeepsInput ==
    (last.op = "create_book" /\ last.meta # None)
        => LET arg == last.arg[1]
               got == ~last.meta[1].raised
               metadata == last.meta[1].metadata
               Has(key) == /\ got
                           /\ key \in DOMAIN metadata
                           /\ metadata[key] # None
                           /\ metadata[key] # Some("")
               Filled(own, key) ==
                   IF own # None /\ own # Some("") THEN own
                   ELSE IF Has(key) THEN metadata[key]
                   ELSE own
           IN  /\ \A f \in CallerFields \ {"isbn", "description"} :
                     CreatedRecord[f] = arg[f]
               /\ CreatedRecord["isbn"] = Filled(arg.isbn, "isbn")
               /\ CreatedRecord["description"]
                     = Filled(arg.description, "description")
               /\ CreatedRecord["cover_url"] = Filled(None, "cover_url")
               /\ CreatedRecord["subjects"] =
                     IF got /\ metadata.subjects # <<>> THEN metadata.subjects
                     ELSE <<>>

\* Metadata with an isbn, a description, a cover and subjects, for a request
\* that gave an isbn and a description of its own.
C14_Witness ==
    /\ last.op = "create_book"
    /\ last.outcome = "ok"
    /\ last.meta # None /\ ~last.meta[1].raised
    /\ last.meta[1].metadata.subjects # <<>>
    /\ last.arg[1].isbn # None /\ last.arg[1].description # None
    /\ CreatedRecord["isbn"] = last.arg[1].isbn
    /\ CreatedRecord["description"] = last.arg[1].description
    /\ CreatedRecord["cover_url"] # None
    /\ CreatedRecord["subjects"] # <<>>

----------------------------------------------------------------------------
(* The storage clients when the backend fails (SpecStorage).               *)

\* What can go wrong in the backend during get_data: the file cannot be
\* read or does not hold JSON; the bin or the database cannot be reached.
\* Nothing can go wrong in the memory client.
ReadFaults(v) ==
    CASE v = "memory"   -> {"none"}
      [] v = "file"     -> {"none", "unreadable", "invalid_json"}
      [] v = "jsonbin"  -> {"none", "unreachable"}
      [] v = "postgres" -> {"none", "unreachable"}

\* What can go wrong during save_data: the file cannot be opened for
\* writing, or the write fails after open(path, "w") has truncated the file;
\* the bin or the database cannot be reached.
WriteFaults(v) ==
    CASE v = "memory"   -> {"none"}
      [] v = "file"     -> {"none", "open_fails", "write_fails"}
      [] v = "jsonbin"  -> {"none", "unreachable"}
      [] v = "postgres" -> {"none", "unreachable"}

\* get_data under a fault: the file and the jsonbin clients catch every
\* exception and return [], the relational client rolls back and raises.
get_data_under(v, store, fault) ==
    IF fault = "none"
    THEN [raised |-> FALSE, value |-> get_data(v, store)]
    ELSE CASE v \in {"file", "jsonbin"} -> [raised |-> FALSE, value |-> <<>>]
           [] v = "postgres"            -> [raised |-> TRUE, value |-> <<>>]
           [] OTHER -> [raised |-> FALSE, value |-> get_data(v, store)]

\* save_data under a fault: every client raises.  The file client encodes
\* the records before it opens the file, so a list that json cannot encode
\* leaves the file alone; a write that fails after the file was opened
\* leaves it truncated, and get_data reads a truncated file as [].  The
\* relational client rolls the transaction back.
save_data_under(v, store, records, t, fault) ==
    IF fault = "none" THEN save_data(v, store, records, t)
    ELSE IF /\ v = "file"
            /\ fault = "write_fails"
            /\ \A i \in DOMAIN records : JsonSerializable(records[i])
         THEN [raised |-> TRUE, store |-> <<>>]
         ELSE [raised |-> TRUE, store |-> store]

\* A record as the repository writes it for an entity of the service: with
\* subjects and timestamps.
ServiceRecord ==
    [MkRecord(5, <<"e">>, <<"k">>, <<"f">>, "reserved")
        EXCEPT !.subjects = <<"subjM">>,
               !.created_at = Some(1), !.updated_at = Some(1)]

\* The lists that save_data is given.
SaveInputs == {<<>>, Shelf, Twins, <<ServiceRecord>>}

InitStorage ==
    /\ variant \in Variants
    /\ \E c \in {<<>>, Shelf, Twins} :
          LET saved == save_data(variant, <<>>, c, 1)
          IN  ~saved.raised /\ data = saved.store
    /\ now = 2
    /\ last = NoCall
    /\ tasks = NoTasks
    /\ http = NoHttp

\* StorageClient.get_data()
GetData ==
    /\ \E fault \in ReadFaults(variant) :
          LET r == get_data_under(variant, data, fault)
          IN  last' = [NoCall EXCEPT
                          !.op = "get_data", !.fault = fault, !.before = data,
                          !.outcome = IF r.raised THEN "StorageError" ELSE "ok",
                          !.items = r.value]
    /\ UNCHANGED <<variant, data, now, tasks, http>>

\* StorageClient.save_data(records)
SaveData ==
    /\ \E records \in SaveInputs, fault \in WriteFaults(variant) :
          LET r == save_data_under(variant, data, records, now, fault)
          IN  /\ data' = r.store
              /\ last' = [NoCall EXCEPT
                            !.op = "save_data", !.fault = fault,
                            !.arg = Some(records), !.before = data,
                            !.outcome = IF r.raised THEN "StorageError" ELSE "ok",
                            !.saves = 1, !.written = Some(records)]
    /\ UNCHANGED <<variant, now, tasks, http>>

NextStorage ==
    \/ GetData
    \/ SaveData

SpecStorage == InitStorage /\ [][NextStorage]_vars

\* C15: get_data raises a storage error whenever the backend cannot be
\* reached or read, and returns the empty sequence only when the backend
\* answers and holds no record.
C15_ReadFailureRaises ==
    last.op = "get_data"
        => /\ last.fault # "none" => last.outcome = "StorageError"
           /\ (last.outcome = "ok" /\ last.items = <<>>)
                => (last.fault = "none" /\ last.before = <<>>)

\* C16: after save_data(records) returns, get_data yields the records it
\* was given; after it raises, get_data yields the collection that was
\* stored before the call.
C16_SaveAllOrNothing ==
    last.op = "save_data"
        => IF last.outcome = "ok"
           THEN get_data(variant, data) = last.arg[1]
           ELSE get_data(variant, data) = last.before

----------------------------------------------------------------------------
(* create_book calls that run at once (SpecRace).  A coroutine gives way   *)
(* to the others where it awaits input or output: after its validation     *)
(* (the metadata lookup) and, except with the memory client, whose         *)
(* get_data and save_data never suspend, between the repository's          *)
(* get_data and save_data.                                                 *)

Tasks == 1..MaxTasks

\* A coroutine that has not been started.
IdleTask ==
    [pc |-> "idle", book_data |-> None, seen |-> FALSE, verdict |-> "none",
     entity |-> None, written |-> None, outcome |-> "none"]

\* The requests of the concurrent callers: "d" by "h" and the same in
\* capitals.
RaceRequests ==
    {MkBookCreate(<<"d">>, <<"h">>, 1400, "available", None),
     MkBookCreate(<<"D">>, <<"H">>, 1965, "borrowed", None)}

\* What get_book_metadata does for a concurrent caller: raise, or return
\* the metadata of a first candidate.
RaceMetadata == {m \in MetadataOutcomes : m.raised \/ "isbn" \in DOMAIN m.metadata}

InitRace ==
    /\ variant \in Variants
    /\ data = <<>>
    /\ now = 1
    /\ last = NoCall
    /\ tasks = [t \in Tasks |-> IdleTask]
    /\ http = NoHttp

\* create_book is called and runs to the await of the metadata lookup:
\* _validate_book_creation on the collection as it is now, model_to_entity.
\* seen records whether a record with the pair was stored at this moment.
race_validate(t, book_data) ==
    LET verdict == validate_book_creation(variant, data, book_data, ThisYear)
    IN  /\ tasks[t].pc = "idle"
        /\ tasks' = [tasks EXCEPT ![t] =
                        [IdleTask EXCEPT
                            !.pc = IF verdict = "ok" THEN "enrich" ELSE "done",
                            !.book_data = Some(book_data),
                            !.seen = \E i \in DOMAIN data :
                                        /\ Lower(data[i]["title"]) = Lower(book_data.title)
                                        /\ Lower(data[i]["author"]) = Lower(book_data.author),
                            !.verdict = verdict,
                            !.outcome = IF verdict = "ok" THEN "none" ELSE verdict]]
        /\ UNCHANGED data

\* The metadata lookup answers; _enrich_with_metadata; the repository's
\* create begins: get_data, the next id, the list with the new record.
\* The memory client's save_data follows at once, the other clients' after
\* an await.
race_read(t, meta) ==
    LET book_entity == enrich_with_metadata(
                           model_to_entity(tasks[t].book_data[1], now), meta)
        books_data == get_data(variant, data)
        created == [book_entity EXCEPT !.id = generate_next_id(books_data)]
        written == Append(books_data, entity_to_dict(created))
        saved == save_data(variant, data, written, now)
    IN  /\ tasks[t].pc = "enrich"
        /\ IF variant = "memory"
           THEN /\ data' = saved.store
                /\ tasks' = [tasks EXCEPT ![t].pc = "done",
                                          ![t].entity = Some(created),
                                          ![t].written = Some(written),
                                          ![t].outcome = "ok"]
           ELSE /\ data' = data
                /\ tasks' = [tasks EXCEPT ![t].pc = "save",
                                          ![t].entity = Some(created),
                                          ![t].written = Some(written)]

\* A variant of the write that checks the pair again against the
\* collection as it is when it writes.
race_save_rechecking(t) ==
    LET saved == save_data(variant, data, tasks[t].written[1], now)
        verdict == validate_book_creation(variant, data, tasks[t].book_data[1],
                                          ThisYear)
    IN  /\ tasks[t].pc = "save"
        /\ data' = IF verdict = "ok" THEN saved.store ELSE data
        /\ tasks' = [tasks EXCEPT
                        ![t].pc = "done",
                        ![t].outcome = IF verdict # "ok" THEN verdict
                                       ELSE IF saved.raised THEN "StorageError"
                                       ELSE "ok"]

\* save_data with the list that was built from what get_data returned.
race_save(t) ==
    LET saved == save_data(variant, data, tasks[t].written[1], now)
    IN  /\ tasks[t].pc = "save"
        /\ data' = saved.store
        /\ tasks' = [tasks EXCEPT
                        ![t].pc = "done",
                        ![t].outcome = IF saved.raised THEN "StorageError"
                                       ELSE "ok"]

RaceValidate ==
    /\ \E t \in Tasks, book_data \in RaceRequests : race_validate(t, book_data)
    /\ UNCHANGED <<variant, now, last, http>>

RaceRead ==
    /\ \E t \in Tasks, meta \in RaceMetadata : race_read(t, meta)
    /\ UNCHANGED <<variant, now, last, http>>

RaceSave ==
    /\ \E t \in Tasks : race_save(t)
    /\ UNCHANGED <<variant, now, last, http>>

NextRace ==
    \/ RaceValidate
    \/ RaceRead
    \/ RaceSave

SpecRace == InitRace /\ [][NextRace]_vars

\* The number of stored records with the pair of the request.
PairCount(store, book_data) ==
    Cardinality({i \in DOMAIN store :
                    /\ Lower(store[i]["title"]) = Lower(book_data.title)
                    /\ Lower(store[i]["author"]) = Lower(book_data.author)})

\* C17: a create_book call that has passed the uniqueness check is not
\* checked again: whatever the other calls have written since, it hands the
\* list it read plus its record to the storage and succeeds unless the
\* storage refuses the write; so two calls for one pair that both passed
\* the check before either wrote both succeed, and the collection then
\* holds two records of the pair or has lost the record of one of them.
C17_CheckThenWriteRace ==
    /\ \A t \in Tasks :
          (tasks[t].pc = "done" /\ tasks[t].verdict = "ok")
              => /\ tasks[t].outcome \in {"ok", "StorageError"}
                 /\ (variant \in {"memory", "postgres"}
                        /\ tasks[t].entity[1].isbn = None)
                      => tasks[t].outcome = "ok"
    /\ \A t, u \in Tasks :
          (/\ t # u
           /\ tasks[t].pc = "done" /\ tasks[u].pc = "done"
           /\ tasks[t].outcome = "ok" /\ tasks[u].outcome = "ok"
           /\ ~tasks[t].seen /\ ~tasks[u].seen
           /\ \A w \in Tasks \ {t, u} : tasks[w].pc = "idle")
              => \/ /\ Len(data) = 2
                    /\ PairCount(data, tasks[t].book_data[1]) = 2
                 \/ /\ Len(data) = 1
                    /\ tasks[t].entity[1].id = tasks[u].entity[1].id

\* Two calls for one pair that both passed the check on the empty
\* collection and both succeeded, and two stored records of the pair.
C17_Witness ==
    \E t, u \in Tasks :
        /\ t # u
        /\ tasks[t].pc = "done" /\ tasks[u].pc = "done"
        /\ tasks[t].outcome = "ok" /\ tasks[u].outcome = "ok"
        /\ ~tasks[t].seen /\ ~tasks[u].seen
        /\ PairCount(data, tasks[t].book_data[1]) = 2
        /\ PairCount(data, tasks[u].book_data[1]) = 2


\* C18: every request is answered with the status of its outcome: a book
\* that already exists with 409, a book that is not found (BookNotFound, or
\* None from a read or an update) with 404, invalid book data with 400, a
\* success with a 2xx status, and every other error of the service or the
\* storage with a 5xx status and one of the fixed texts of the middleware,
\* never the text of the backend's exception.
EndpointOps ==
    {"create_book", "get_book_by_id", "update_book", "delete_book"}

DomainOutcomes ==
    {"ok", "None", "False", "BookAlreadyExists", "BookNotFound",
     "InvalidBookData", "RequestValidationError"}

C18_StatusMapping ==
    last.op \in EndpointOps =>
        /\ last.outcome = "BookAlreadyExists" => last.status = 409
        /\ last.outcome \in {"BookNotFound", "None"} => last.status = 404
        /\ last.outcome = "InvalidBookData" => last.status = 400
        /\ last.outcome = "ok" => last.status \in 200..299
        /\ last.outcome \notin DomainOutcomes =>
              /\ last.status \in 500..599
              /\ last.message \in FixedTexts
        /\ last.message # "raw"

\* A request was answered after the backend raised.
C18_Witness ==
    /\ last.op = "create_book"
    /\ last.outcome = "StorageError"
    /\ last.status = 500
    /\ last.message = "An unexpected error occurred"


----------------------------------------------------------------------------
(* The shared HTTP session (SpecHttp): coroutines that call                *)
(* AsyncHttpClientManager.get_session and close, interleaved at their      *)
(* awaits, and the shutdown of the application.                            *)

Callers == 1..MaxCallers

\* A caller of get_session: where it is (idle; waiting for _lock; cleanup,
\* inside the except clause with the lock held; done; raised) and the
\* session it was given.
IdleCaller == [pc |-> "idle", got |-> NoSession]

InitHttp ==
    /\ variant \in Variants
    /\ data = <<>>
    /\ now = 1
    /\ last = NoCall
    /\ tasks = [t \in Callers |-> IdleCaller]
    /\ http = NoHttp

\* cls._session is not None and not cls._session.closed
SessionOpen(h) == h.session # NoSession /\ h.session \in h.open

\* A variant of the body of "async with cls._lock" without the second
\* check: it creates a session whatever _session holds.
under_lock_unchecked(t, h, created_ok) ==
    IF created_ok
    THEN /\ h.created < MaxSessions
         /\ tasks' = [tasks EXCEPT ![t] = [pc |-> "done",
                                           got |-> h.created + 1]]
         /\ http' = [h EXCEPT !.session = h.created + 1,
                              !.open = h.open \cup {h.created + 1},
                              !.created = h.created + 1,
                              !.lock = 0]
    ELSE /\ tasks' = [tasks EXCEPT ![t] = [pc |-> "cleanup",
                                           got |-> NoSession]]
         /\ http' = [h EXCEPT !.lock = t]

\* The body of "async with cls._lock", entered by caller t with the
\* manager as h: the second check returns the open session; otherwise the
\* connector and the session are constructed.  If that works (created_ok)
\* the session is stored and returned and the lock released, with no await
\* between; if it raises, the except clause awaits the close of what was
\* constructed while the lock is held.
under_lock(t, h, created_ok) ==
    IF SessionOpen(h)
    THEN /\ tasks' = [tasks EXCEPT ![t] = [pc |-> "done", got |-> h.session]]
         /\ http' = [h EXCEPT !.lock = 0]
    ELSE IF created_ok
    THEN /\ h.created < MaxSessions
         /\ tasks' = [tasks EXCEPT ![t] = [pc |-> "done",
                                           got |-> h.created + 1]]
         /\ http' = [h EXCEPT !.session = h.created + 1,
                              !.open = h.open \cup {h.created + 1},
                              !.created = h.created + 1,
                              !.lock = 0]
    ELSE /\ tasks' = [tasks EXCEPT ![t] = [pc |-> "cleanup",
                                           got |-> NoSession]]
         /\ http' = [h EXCEPT !.lock = t]

\* get_session, from the call to its first await or its return: the check
\* without the lock; then the lock, taken at once if it is free and nobody
\* waits for it, and waited for otherwise.
get_session(t, created_ok) ==
    /\ http.phase = "running"
    /\ tasks[t].pc \in {"idle", "done", "raised"}
    /\ IF SessionOpen(http)
       THEN /\ tasks' = [tasks EXCEPT ![t] = [pc |-> "done",
                                              got |-> http.session]]
            /\ http' = http
       ELSE IF http.lock = 0 /\ http.waiters = <<>>
       THEN under_lock(t, http, created_ok)
       ELSE /\ tasks' = [tasks EXCEPT ![t] = [pc |-> "waiting",
                                              got |-> NoSession]]
            /\ http' = [http EXCEPT !.waiters = Append(@, t)]

GetSession ==
    /\ \E t \in Callers, created_ok \in BOOLEAN : get_session(t, created_ok)
    /\ UNCHANGED <<variant, data, now, last>>

\* get_session resumed: the lock was released and t waited the longest.
get_session_locked(t, created_ok) ==
    /\ tasks[t].pc = "waiting"
    /\ http.lock = 0
    /\ http.waiters # <<>>
    /\ Head(http.waiters) = t
    /\ under_lock(t, [http EXCEPT !.waiters = Tail(@)], created_ok)

GetSessionLocked ==
    /\ \E t \in Callers, created_ok \in BOOLEAN :
          get_session_locked(t, created_ok)
    /\ UNCHANGED <<variant, data, now, last>>

\* get_session resumed in its except clause: _session = None, the
\* exception is raised again and the lock released.
get_session_failed(t) ==
    /\ tasks[t].pc = "cleanup"
    /\ tasks' = [tasks EXCEPT ![t] = [pc |-> "raised", got |-> NoSession]]
    /\ http' = [http EXCEPT !.session = NoSession, !.lock = 0]

GetSessionFailed ==
    /\ \E t \in Callers : get_session_failed(t)
    /\ UNCHANGED <<variant, data, now, last>>

\* close(), up to its await: with an open session, the session is closed;
\* with none, close returns.
close ==
    /\ http.phase = "running"
    /\ ~http.closing
    /\ IF SessionOpen(http)
       THEN http' = [http EXCEPT !.open = @ \ {http.session},
                                 !.closes = @ + 1,
                                 !.closing = TRUE]
       ELSE http' = http
    /\ tasks' = tasks

Close ==
    /\ close
    /\ UNCHANGED <<variant, data, now, last>>

\* close() resumed: the finally clause sets _session = None.
close_finally ==
    /\ http.closing
    /\ http' = [http EXCEPT !.session = NoSession, !.closing = FALSE]
    /\ tasks' = tasks

CloseFinally ==
    /\ close_finally
    /\ UNCHANGED <<variant, data, now, last>>

\* The shutdown part of lifespan, once no call is between two awaits:
\* close_db_connection() and nothing else.
lifespan_shutdown ==
    /\ http.phase = "running"
    /\ ~http.closing
    /\ \A t \in Callers : tasks[t].pc \in {"idle", "done", "raised"}
    /\ http' = [http EXCEPT !.phase = "stopped"]
    /\ tasks' = tasks

Shutdown ==
    /\ lifespan_shutdown
    /\ UNCHANGED <<variant, data, now, last>>

NextHttp ==
    \/ GetSession
    \/ GetSessionLocked
    \/ GetSessionFailed
    \/ Close
    \/ CloseFinally
    \/ Shutdown

SpecHttp == InitHttp /\ [][NextHttp]_vars

\* C19: the session is created by the first call of get_session that
\* needs one, is the one every call returns while it is open, and once the
\* shutdown of the application has completed no session that the manager
\* created is open.
C19_NoSessionAfterShutdown ==
    /\ \A t \in Callers :
          (tasks[t].pc = "done" /\ SessionOpen(http) /\ http.closes = 0)
             => tasks[t].got = http.session
    /\ (http.created = 0) => (http.session = NoSession)
    /\ (http.phase = "stopped") => (http.open = {})

\* C20: while close() has not been called, however the calls of
\* get_session interleave, at most one session is created, every call that
\* has returned returned that session, which is open and is the one the
\* manager holds, and a call that returned means one was created; at any
\* time at most one session is open.
C20_SingleSession ==
    (http.closes = 0) =>
        /\ http.created <= 1
        /\ Cardinality(http.open) <= 1
        /\ \A t \in Callers :
              tasks[t].pc = "done" =>
                 /\ http.created = 1
                 /\ tasks[t].got = http.session
                 /\ tasks[t].got \in http.open

\* One call raised after its creation failed; two others have returned,
\* both with the one session.
C20_Witness ==
    /\ http.closes = 0
    /\ http.created = 1
    /\ SessionOpen(http)
    /\ \E t \in Callers : tasks[t].pc = "raised"
    /\ Cardinality({t \in Callers : /\ tasks[t].pc = "done"
                                    /\ tasks[t].got = http.session}) >= 2


----------------------------------------------------------------------------
(* The metadata service (SpecMeta): get_book_metadata applied to what      *)
(* search_book may give.                                                   *)

\* The most candidates search_book returns in the model.
MaxCandidates == 2

\* The longest description get_book_metadata returns.
DescriptionLimit == 2000

\* A text of n characters.
TextOf(n) == [i \in 1..n |-> "x"]

\* BookMetadata: isbn an Optional[str] kept as one token, cover_id an
\* Optional[int], description an Optional[str] kept as its characters,
\* genre an Optional[str] kept as its pieces, "," standing for the ", "
\* between two subjects.
MkBookMetadata(isbn, cover_id, description, genre) ==
    [isbn |-> isbn, cover_id |-> cover_id, description |-> description,
     genre |-> genre]

FirstCandidates ==
    {MkBookMetadata(isbn, cover_id, description, genre) :
        isbn \in {None, Some(""), Some("isbnM")},
        cover_id \in {None, Some(0), Some(7)},
        description \in {None, Some(<<>>), Some(<<"d", "e">>),
                         Some(TextOf(DescriptionLimit)),
                         Some(TextOf(DescriptionLimit + 1)),
                         Some(TextOf(DescriptionLimit + 3))},
        genre \in {None, Some(<<>>), Some(<<"s1", ",", "s2">>)}}

LaterCandidates ==
    {MkBookMetadata(Some("isbnZ"), Some(9), Some(<<"z">>), Some(<<"s9">>)),
     MkBookMetadata(None, None, None, None)}

\* What search_book may do: raise, or return a list of candidates.
SearchOutcomes ==
    {[raised |-> TRUE, books |-> <<>>]} \cup
    {[raised |-> FALSE, books |-> books] :
        books \in {<<>>} \cup
                  UNION {{<<first>> \o rest :
                             first \in FirstCandidates,
                             rest \in [1..n -> LaterCandidates]} :
                         n \in 0..(MaxCandidates - 1)}}

\* str.split(", ")
RECURSIVE Split(_)
Split(s) ==
    IF \A i \in DOMAIN s : s[i] # ","
    THEN <<s>>
    ELSE LET i == CHOOSE k \in DOMAIN s :
                     s[k] = "," /\ \A j \in 1..(k - 1) : s[j] # ","
         IN  <<SubSeq(s, 1, i - 1)>> \o Split(SubSeq(s, i + 1, Len(s)))

\* _empty_metadata()
empty_metadata ==
    [cover_url |-> None, description |-> Some(<<>>), subjects |-> <<>>]

\* A variant of the cover derivation that prefers the cover identifier.
cover_url_of_preferring_id(book) ==
    IF book.cover_id # None /\ book.cover_id[1] # 0
    THEN Some([by |-> "id", cover_id |-> book.cover_id[1]])
    ELSE IF Truthy(book.isbn)
    THEN Some([by |-> "isbn", isbn |-> book.isbn[1]])
    ELSE None

\* The cover URL of a candidate: covers.openlibrary.org/b/isbn/<isbn>-L.jpg
\* if book.isbn is truthy, else .../b/id/<cover_id>-L.jpg if book.cover_id
\* is truthy, else None.
cover_url_of(book) ==
    IF Truthy(book.isbn)
    THEN Some([by |-> "isbn", isbn |-> book.isbn[1]])
    ELSE IF book.cover_id # None /\ book.cover_id[1] # 0
    THEN Some([by |-> "id", cover_id |-> book.cover_id[1]])
    ELSE None

\* A variant of get_book_metadata that answers a failed search with the
\* empty metadata.
get_book_metadata_swallowing(search) ==
    IF search.raised \/ search.books = <<>>
    THEN [raised |-> FALSE, metadata |-> empty_metadata]
    ELSE LET book == search.books[1]
         IN  [raised |-> FALSE,
              metadata |->
                [cover_url |-> cover_url_of(book),
                 description |->
                    IF TruthyStr(book.description)
                    THEN Some(SubSeq(book.description[1], 1,
                                     Min({Len(book.description[1]),
                                          DescriptionLimit})))
                    ELSE Some(<<>>),
                 subjects |-> IF TruthyStr(book.genre)
                              THEN Split(book.genre[1]) ELSE <<>>,
                 isbn |-> book.isbn]]

\* get_book_metadata: every exception leaves as MetadataClientError
\* (raised); no candidates give _empty_metadata(); otherwise the metadata
\* is made from books[0].
get_book_metadata(search) ==
    IF search.raised
    THEN [raised |-> TRUE, metadata |-> <<>>]
    ELSE IF search.books = <<>>
    THEN [raised |-> FALSE, metadata |-> empty_metadata]
    ELSE LET book == search.books[1]
         IN  [raised |-> FALSE,
              metadata |->
                [cover_url |-> cover_url_of(book),
                 description |->
                    IF TruthyStr(book.description)
                    THEN Some(SubSeq(book.description[1], 1,
                                     Min({Len(book.description[1]),
                                          DescriptionLimit})))
                    ELSE Some(<<>>),
                 subjects |-> IF TruthyStr(book.genre)
                              THEN Split(book.genre[1]) ELSE <<>>,
                 isbn |-> book.isbn]]

InitMeta ==
    /\ variant = "memory"
    /\ data = <<>>
    /\ now = 1
    /\ last = NoCall
    /\ tasks = NoTasks
    /\ http = NoHttp

GetBookMetadata ==
    /\ \E search \in SearchOutcomes :
          LET r == get_book_metadata(search)
          IN  last' = [NoCall EXCEPT
                          !.op = "get_book_metadata",
                          !.arg = Some(search),
                          !.outcome = IF r.raised THEN "MetadataClientError"
                                      ELSE "ok",
                          !.result = IF r.raised THEN None
                                     ELSE Some(r.metadata)]
    /\ UNCHANGED <<variant, data, now, tasks, http>>

NextMeta == GetBookMetadata

SpecMeta == InitMeta /\ [][NextMeta]_vars

\* C21: get_book_metadata raises MetadataClientError exactly when
\* search_book failed; when search_book returned no candidates it returns
\* the empty metadata (no cover, empty description, no subjects); otherwise
\* what it returns is made from the first candidate alone.
C21_FailureDistinguishable ==
    last.op = "get_book_metadata" =>
        LET search == last.arg[1]
        IN  /\ (last.outcome = "MetadataClientError") <=> search.raised
            /\ (~search.raised /\ search.books = <<>>) =>
                  /\ last.outcome = "ok"
                  /\ last.result = Some(empty_metadata)
            /\ (~search.raised /\ search.books # <<>>) =>
                  /\ last.outcome = "ok"
                  /\ last.result =
                        Some(get_book_metadata(
                                [raised |-> FALSE,
                                 books |-> <<search.books[1]>>]).metadata)
                  /\ last.result[1].isbn = search.books[1].isbn

\* A search that failed was answered with the error.
C21_Witness ==
    /\ last.op = "get_book_metadata"
    /\ last.arg[1].raised
    /\ last.outcome = "MetadataClientError"

\* C22: the cover of the metadata is derived from the first candidate's
\* ISBN when it has one (a non-empty string), otherwise from its cover
\* identifier when it has one (not None, not 0), otherwise it is None; the
\* description returned is the first candidate's, cut to at most 2000
\* characters.
C22_CoverPrecedence ==
    (last.op = "get_book_metadata" /\ last.outcome = "ok"
        /\ last.arg[1].books # <<>>) =>
        LET book == last.arg[1].books[1]
            metadata == last.result[1]
            has_id == book.cover_id # None /\ book.cover_id[1] # 0
            description == IF book.description = None THEN <<>>
                           ELSE book.description[1]
        IN  /\ Truthy(book.isbn) =>
                  metadata.cover_url = Some([by |-> "isbn", isbn |-> book.isbn[1]])
            /\ (~Truthy(book.isbn) /\ has_id) =>
                  metadata.cover_url = Some([by |-> "id", cover_id |-> book.cover_id[1]])
            /\ (~Truthy(book.isbn) /\ ~has_id) => metadata.cover_url = None
            /\ Len(metadata.description[1]) <= DescriptionLimit
            /\ Len(metadata.description[1]) =
                  Min({Len(description), DescriptionLimit})
            /\ \A i \in 1..Len(metadata.description[1]) :
                  metadata.description[1][i] = description[i]

\* A first candidate with both an ISBN and a cover identifier and a
\* description longer than the limit was turned into metadata.
C22_Witness ==
    /\ last.op = "get_book_metadata"
    /\ last.outcome = "ok"
    /\ last.arg[1].books # <<>>
    /\ Truthy(last.arg[1].books[1].isbn)
    /\ last.arg[1].books[1].cover_id = Some(7)
    /\ last.arg[1].books[1].description # None
    /\ Len(last.arg[1].books[1].description[1]) > DescriptionLimit
    /\ Len(last.result[1].description[1]) = DescriptionLimit


----------------------------------------------------------------------------
(* Further properties of the repository's writes (Spec).                   *)

\* The ids of the stored records.
StoredIds == {DictGet(data[i], "id", NoId) : i \in DOMAIN data}

\* This step is a create_book that stored a record.
CreateStep == last'.op = "create_book" /\ last'.outcome = "ok"

\* This step is a create_book that stored a record, and the call before it
\* was a delete_book that removed one.
CreateAfterDelete ==
    /\ CreateStep
    /\ last.op = "delete_book"
    /\ last.outcome = "ok"

\* The id a create assigns: 1 on an empty collection, otherwise the largest
\* stored id + 1; the record goes after the stored ones, which stay as they
\* are.
CreateAppends ==
    CreateStep =>
        /\ last'.entity[1].id = IF data = <<>> THEN 1 ELSE Max(StoredIds) + 1
        /\ Len(data') = Len(data) + 1
        /\ \A i \in DOMAIN data : data'[i] = data[i]
        /\ data'[Len(data')].id = last'.entity[1].id

\* The id of a deleted record that was not the largest is not assigned
\* while a record with a larger id is stored.
NoReuseBelowMax ==
    (CreateAfterDelete /\ \E id \in StoredIds : id > last.id) =>
        last'.entity[1].id # last.id

\* C23 (as stated): create assigns 1 on an empty collection and otherwise
\* the largest stored id + 1, and appends; after a delete of the record with
\* the largest id the next create assigns the deleted id again; the id of a
\* deleted record that was not the largest is not assigned again while a
\* record with a larger id is stored.
C23_DeletedMaxIdReassigned ==
    [][/\ CreateAppends
       /\ (CreateAfterDelete /\ \A id \in StoredIds : id < last.id) =>
             last'.entity[1].id = last.id
       /\ NoReuseBelowMax]_vars

\* C23 (amended): create assigns 1 on an empty collection and otherwise the
\* largest stored id + 1, and appends; after a delete of the record with the
\* largest id the next create assigns an id that is at most the deleted
\* one, and the deleted one exactly when it was one above the largest id
\* that remains (1 when nothing remains); the id of a deleted record that
\* was not the largest is not assigned again while a record with a larger
\* id is stored.
C23_IdIsMaxPlusOne ==
    [][/\ CreateAppends
       /\ (CreateAfterDelete /\ \A id \in StoredIds : id < last.id) =>
             /\ last'.entity[1].id <= last.id
             /\ (last'.entity[1].id = last.id) <=>
                   (last.id = IF data = <<>> THEN 1 ELSE Max(StoredIds) + 1)
       /\ NoReuseBelowMax]_vars

\* On the memory variant the record created first is stored as created
\* and the record created third has id 2: the record created second, which
\* had id 2, was deleted in between.
C23_Witness ==
    /\ variant = "memory"
    /\ last.op = "create_book"
    /\ last.outcome = "ok"
    /\ Len(data) = 2
    /\ data[1].id = 1
    /\ data[1].created_at = Some(1)
    /\ data[1].updated_at = Some(1)
    /\ data[2].id = 2
    /\ data[2].created_at = Some(3)


----------------------------------------------------------------------------
(* Concurrent calls of the repository (SpecWriters): create, update and    *)
(* delete of BookRepository run as coroutines that interleave at the       *)
(* awaits of the storage client.                                           *)

Writers == 1..MaxTasks

\* A call of the repository: where it is (idle; save, after get_data and
\* before save_data; done), the operation and its arguments, the backend's
\* collection when it was called (before), the list get_data returned
\* (read), the list it hands to save_data (written), and how it ended.
IdleWriter ==
    [pc |-> "idle", op |-> "none", id |-> NoId, book |-> None,
     before |-> None, read |-> None, written |-> None,
     outcome |-> "none", value |-> None]

\* The entities the callers pass to create and to update.
WriterBooks ==
    {MkRecord(NoId, <<"a">>, <<"h">>, <<"s">>, "available"),
     MkRecord(NoId, <<"b">>, <<"k">>, <<"f">>, "borrowed")}

UpdateBooks == {MkRecord(NoId, <<"u">>, <<"h">>, <<"s">>, "reserved")}

\* The ids the callers pass to update and to delete.
WriterIds == 1..2

\* Two records stored by earlier calls.
StoredTwo ==
    <<MkRecord(1, <<"d">>, <<"h">>, <<"s">>, "available"),
      MkRecord(2, <<"e">>, <<"k">>, <<"f">>, "borrowed")>>

InitWriters ==
    /\ variant \in Variants
    /\ \E c \in {<<>>, StoredTwo} :
          LET saved == save_data(variant, <<>>, c, 1)
          IN  ~saved.raised /\ data = saved.store
    /\ now = 1
    /\ last = NoCall
    /\ tasks = [t \in Writers |-> IdleWriter]
    /\ http = NoHttp

\* A variant of write_plan whose update replaces every record of the id,
\* not the first alone.
write_plan_every_match(op, books_data, book_id, book) ==
    CASE op = "create" ->
            LET created == [book EXCEPT !.id = generate_next_id(books_data)]
            IN  [save |-> TRUE,
                 written |-> Append(books_data, entity_to_dict(created)),
                 outcome |-> "ok", value |-> Some(created)]
      [] op = "update" ->
            LET hits == IndexesOf(books_data, book_id)
                updated == [book EXCEPT !.id = book_id]
            IN  IF hits = {}
                THEN [save |-> FALSE, written |-> books_data,
                      outcome |-> "None", value |-> None]
                ELSE [save |-> TRUE,
                      written |-> [i \in DOMAIN books_data |->
                                     IF i \in hits
                                     THEN entity_to_dict(updated)
                                     ELSE books_data[i]],
                      outcome |-> "ok", value |-> Some(updated)]
      [] op = "delete" ->
            LET kept == SelectSeq(books_data, LAMBDA b :
                            DictGet(b, "id", NoId) # book_id)
            IN  IF Len(kept) < Len(books_data)
                THEN [save |-> TRUE, written |-> kept,
                      outcome |-> "ok", value |-> None]
                ELSE [save |-> FALSE, written |-> books_data,
                      outcome |-> "False", value |-> None]

\* What create, update and delete make of the list that get_data returned:
\* the list for save_data, if there is to be one, and what is returned.
write_plan(op, books_data, book_id, book) ==
    CASE op = "create" ->
            LET created == [book EXCEPT !.id = generate_next_id(books_data)]
            IN  [save |-> TRUE,
                 written |-> Append(books_data, entity_to_dict(created)),
                 outcome |-> "ok", value |-> Some(created)]
      [] op = "update" ->
            LET hits == IndexesOf(books_data, book_id)
                updated == [book EXCEPT !.id = book_id]
            IN  IF hits = {}
                THEN [save |-> FALSE, written |-> books_data,
                      outcome |-> "None", value |-> None]
                ELSE [save |-> TRUE,
                      written |-> [books_data EXCEPT
                                     ![Min(hits)] = entity_to_dict(updated)],
                      outcome |-> "ok", value |-> Some(updated)]
      [] op = "delete" ->
            LET kept == SelectSeq(books_data, LAMBDA b :
                            DictGet(b, "id", NoId) # book_id)
            IN  IF Len(kept) < Len(books_data)
                THEN [save |-> TRUE, written |-> kept,
                      outcome |-> "ok", value |-> None]
                ELSE [save |-> FALSE, written |-> books_data,
                      outcome |-> "False", value |-> None]

\* A call begins and runs to the await of save_data: get_data (under a
\* fault of the backend, or none), then the list is made.  The memory
\* client's coroutines never suspend, so with it save_data follows in the
\* same step.
writer_read(t, op, book_id, book, fault) ==
    LET r == get_data_under(variant, data, fault)
        plan == write_plan(op, r.value, book_id, book)
        saved == save_data(variant, data, plan.written, now)
        call == [IdleWriter EXCEPT
                    !.op = op, !.id = book_id, !.book = Some(book),
                    !.before = Some(data), !.read = Some(r.value)]
    IN  /\ tasks[t].pc = "idle"
        /\ IF r.raised
           THEN /\ tasks' = [tasks EXCEPT ![t] =
                               [call EXCEPT !.pc = "done",
                                            !.outcome = "StorageError"]]
                /\ UNCHANGED <<data, last>>
           ELSE IF ~plan.save
           THEN /\ tasks' = [tasks EXCEPT ![t] =
                               [call EXCEPT !.pc = "done",
                                            !.outcome = plan.outcome]]
                /\ UNCHANGED <<data, last>>
           ELSE IF variant = "memory"
           THEN /\ tasks' = [tasks EXCEPT ![t] =
                               [call EXCEPT !.pc = "done",
                                            !.written = Some(plan.written),
                                            !.outcome = plan.outcome,
                                            !.value = plan.value]]
                /\ data' = saved.store
                /\ last' = [NoCall EXCEPT !.op = op, !.id = t,
                                          !.before = data, !.saves = 1,
                                          !.written = Some(plan.written)]
           ELSE /\ tasks' = [tasks EXCEPT ![t] =
                               [call EXCEPT !.pc = "save",
                                            !.written = Some(plan.written),
                                            !.value = plan.value]]
                /\ UNCHANGED <<data, last>>

WriterRead ==
    /\ \E t \in Writers, fault \in ReadFaults(variant) :
          \/ \E book \in WriterBooks : writer_read(t, "create", NoId, book, fault)
          \/ \E book_id \in WriterIds, book \in UpdateBooks :
                writer_read(t, "update", book_id, book, fault)
          \/ \E book_id \in WriterIds, book \in UpdateBooks :
                writer_read(t, "delete", book_id, book, fault)
    /\ UNCHANGED <<variant, now, http>>

\* A variant of the write that puts the records the backend holds now in
\* front of the caller's own new record, instead of the list the caller
\* made from what it read.
writer_save_merging(t) ==
    LET mine == tasks[t].written[1]
        records == IF tasks[t].op = "create"
                   THEN Append(get_data(variant, data), mine[Len(mine)])
                   ELSE mine
        saved == save_data(variant, data, records, now)
    IN  /\ tasks[t].pc = "save"
        /\ data' = saved.store
        /\ tasks' = [tasks EXCEPT
                        ![t].pc = "done",
                        ![t].outcome = IF saved.raised THEN "StorageError"
                                       ELSE "ok",
                        ![t].value = IF saved.raised THEN None ELSE @]
        /\ last' = [NoCall EXCEPT !.op = tasks[t].op, !.id = t,
                                  !.before = data, !.saves = 1,
                                  !.written = Some(records)]

\* The call resumes: save_data with the list made from what was read, and
\* the return.
writer_save(t) ==
    LET records == tasks[t].written[1]
        saved == save_data(variant, data, records, now)
    IN  /\ tasks[t].pc = "save"
        /\ data' = saved.store
        /\ tasks' = [tasks EXCEPT
                        ![t].pc = "done",
                        ![t].outcome = IF saved.raised THEN "StorageError"
                                       ELSE "ok",
                        ![t].value = IF saved.raised THEN None ELSE @]
        /\ last' = [NoCall EXCEPT !.op = tasks[t].op, !.id = t,
                                  !.before = data, !.saves = 1,
                                  !.written = Some(records)]

WriterSave ==
    /\ \E t \in Writers : writer_save(t)
    /\ UNCHANGED <<variant, now, http>>

NextWriters ==
    \/ WriterRead
    \/ WriterSave

SpecWriters == InitWriters /\ [][NextWriters]_vars


\* The collection the backend holds after save_data(records).
StoredForm(records) == save_data(variant, data, records, now).store

\* Writer t is at its save_data and completes it in this step.
SavesNow(t) ==
    /\ tasks[t].pc = "save"
    /\ tasks'[t].pc = "done"
    /\ tasks'[t].outcome = "ok"

\* Caller u's create has returned and was made from the same list that
\* caller t's create, for another book, was made from: both executed
\* get_data before either executed save_data.
CreatedFromSameRead(t, u) ==
    /\ u # t
    /\ tasks[t].op = "create"
    /\ tasks[u].op = "create"
    /\ tasks[u].pc = "done"
    /\ tasks[u].outcome = "ok"
    /\ tasks[u].read = tasks[t].read
    /\ tasks[u].book # tasks[t].book

\* A record with this id and title is stored.
Holds(store, id, title) ==
    \E i \in DOMAIN store : store[i].id = id /\ store[i].title = title

\* C24: a save_data replaces the collection by the list its caller made
\* from what it had read, whatever was written since (the last writer
\* wins); when two creates for different books both executed get_data
\* before either executed save_data, both return the same id, and when the
\* later of the two save_data calls completes the collection holds the
\* later caller's new record and not the earlier caller's.
C24_LastWriterWins ==
    [][\A t \in Writers :
          SavesNow(t) =>
             /\ data' = StoredForm(tasks[t].written[1])
             /\ \A u \in Writers :
                   CreatedFromSameRead(t, u) =>
                      /\ tasks'[t].value[1].id = tasks[u].value[1].id
                      /\ Holds(data', tasks[t].value[1].id,
                               tasks[t].book[1].title)
                      /\ ~Holds(data', tasks[u].value[1].id,
                                tasks[u].book[1].title)
                      /\ Len(data') = Len(tasks[t].read[1]) + 1]_vars

\* Two creates for different books, made from the same empty list, have
\* both returned id 1, and one record is stored.
C24_Witness ==
    \E t, u \in Writers :
        /\ t # u
        /\ tasks[t].pc = "done" /\ tasks[u].pc = "done"
        /\ tasks[t].op = "create" /\ tasks[u].op = "create"
        /\ tasks[t].outcome = "ok" /\ tasks[u].outcome = "ok"
        /\ tasks[t].book # tasks[u].book
        /\ tasks[t].read = Some(<<>>) /\ tasks[u].read = Some(<<>>)
        /\ tasks[t].before = Some(<<>>) /\ tasks[u].before = Some(<<>>)
        /\ tasks[t].value[1].id = 1 /\ tasks[u].value[1].id = 1
        /\ Len(data) = 1


----------------------------------------------------------------------------
(* Writes of the repository, one call at a time (SpecRepoWrites): create   *)
(* and update called on the repository itself, over a backend whose read   *)
(* may fail.                                                               *)

\* The entities a caller passes to update; they carry an id of their own.
RepoUpdates ==
    {MkRecord(9, <<"u">>, <<"h">>, <<"s">>, "reserved"),
     MkRecord(NoId, <<"v">>, <<"k">>, <<"f">>, "maintenance")}

InitRepoWrites ==
    /\ variant \in Variants
    /\ \E c \in {<<>>, Shelf, Twins} :
          LET saved == save_data(variant, <<>>, c, 1)
          IN  ~saved.raised /\ data = saved.store
    /\ now = 2
    /\ last = NoCall
    /\ tasks = NoTasks
    /\ http = NoHttp

\* A call of create or update from its get_data to its return; items is
\* the list get_data returned.
repo_write(op, book_id, book, fault) ==
    LET r == get_data_under(variant, data, fault)
        plan == write_plan(op, r.value, book_id, book)
        saved == save_data(variant, data, plan.written, now)
        call == [NoCall EXCEPT !.op = op, !.id = book_id, !.arg = Some(book),
                               !.fault = fault, !.before = data,
                               !.items = r.value]
    IN  IF r.raised
        THEN /\ last' = [call EXCEPT !.outcome = "StorageError"]
             /\ data' = data
        ELSE IF ~plan.save
        THEN /\ last' = [call EXCEPT !.outcome = plan.outcome]
             /\ data' = data
        ELSE /\ last' = [call EXCEPT
                           !.outcome = IF saved.raised THEN "StorageError"
                                       ELSE plan.outcome,
                           !.entity = IF saved.raised THEN None
                                      ELSE plan.value,
                           !.saves = 1, !.written = Some(plan.written)]
             /\ data' = saved.store

\* BookRepository.create(book)
RepoCreate ==
    /\ Len(data) <= MaxBooks
    /\ \E book \in WriterBooks, fault \in ReadFaults(variant) :
          repo_write("create", NoId, book, fault)
    /\ UNCHANGED <<variant, now, tasks, http>>

\* BookRepository.update(book_id, book)
RepoUpdate ==
    /\ \E book_id \in BookIds, book \in RepoUpdates,
          fault \in ReadFaults(variant) :
          repo_write("update", book_id, book, fault)
    /\ UNCHANGED <<variant, now, tasks, http>>

NextRepoWrites ==
    \/ RepoCreate
    \/ RepoUpdate

SpecRepoWrites == InitRepoWrites /\ [][NextRepoWrites]_vars

\* C25: update(id, entity), when its read succeeds, hands save_data, once,
\* the list it read with the first record of that id replaced by the
\* entity's record, whose id is forced to id, and every other record in its
\* place as it was; the backend then holds as many records as before, the
\* others unchanged, and the entity returned has that id.  When no record
\* has the id it returns None, does not call save_data and leaves the
\* collection as it was.
C25_UpdateFrame ==
    (last.op = "update" /\ last.fault = "none") =>
        LET hits == IndexesOf(last.before, last.id)
            book == last.arg[1]
        IN  IF hits = {}
            THEN /\ last.outcome = "None"
                 /\ last.saves = 0
                 /\ data = last.before
            ELSE /\ last.outcome = "ok"
                 /\ last.saves = 1
                 /\ last.entity = Some([book EXCEPT !.id = last.id])
                 /\ Len(last.written[1]) = Len(last.before)
                 /\ last.written[1][Min(hits)] =
                       entity_to_dict([book EXCEPT !.id = last.id])
                 /\ \A i \in DOMAIN last.before :
                       i # Min(hits) => last.written[1][i] = last.before[i]
                 /\ Len(data) = Len(last.before)
                 /\ data[Min(hits)].id = last.id
                 /\ data[Min(hits)].title = book.title
                 /\ \A i \in DOMAIN last.before :
                       i # Min(hits) => data[i] = last.before[i]

\* An update of id 1 in a collection where two records have id 1 replaced
\* the first of them; the entity passed carried id 9.
C25_Witness ==
    /\ last.op = "update"
    /\ last.fault = "none"
    /\ last.outcome = "ok"
    /\ last.id = 1
    /\ last.arg[1].id = 9
    /\ Cardinality(IndexesOf(last.before, 1)) = 2
    /\ data[1].title = <<"u">>
    /\ data[3].id = 1
    /\ data[3].title = <<"m">>


\* C26: when a create or an update has completed with a save_data, every
\* record the backend held before the call, other than the one an update
\* replaces, is still held afterwards, also when the read before the write
\* failed.
C26_WritesKeepRecords ==
    (last.op \in {"create", "update"} /\ last.saves = 1
        /\ last.outcome = "ok") =>
        \A i \in DOMAIN last.before :
            \/ \E j \in DOMAIN data : data[j] = last.before[i]
            \/ /\ last.op = "update"
               /\ IndexesOf(last.before, last.id) # {}
               /\ i = Min(IndexesOf(last.before, last.id))


\* C29: once a delete of a record has completed, a write of another call
\* does not bring the record back: a record that a completed delete removed
\* and that the backend does not hold is not held after a save_data either,
\* unless that save_data belongs to a create whose new record it is.
C29_DeletedStaysDeleted ==
    [][\A t \in Writers :
          SavesNow(t) =>
             \A u \in Writers \ {t} :
                (tasks[u].pc = "done" /\ tasks[u].op = "delete"
                    /\ tasks[u].outcome = "ok") =>
                   \A i \in DOMAIN tasks[u].read[1] :
                      LET record == tasks[u].read[1][i]
                          held(store) == \E j \in DOMAIN store :
                                            store[j] = record
                      IN  (record.id = tasks[u].id /\ ~held(data)
                              /\ held(data')) =>
                             /\ tasks[t].op = "create"
                             /\ ~held(tasks[t].read[1])]_vars


----------------------------------------------------------------------------
(* A page read while others write (SpecPage): one get_filtered_books       *)
(* between whose two reads of the backend a create or a delete of another  *)
(* request may complete.                                                   *)

\* get_filtered_books not yet called.
IdleReader == [pc |-> "idle", filters |-> None, entities |-> <<>>]

\* get_filtered_books has returned.
DoneReader == [pc |-> "done", filters |-> None, entities |-> <<>>]

\* The queries of the reader: pages of the whole collection.
PageFilters == {f \in BookFiltersSet : NoFilters(f) /\ f.offset <= 1}

InitPage ==
    /\ variant \in Variants
    /\ \E c \in {<<>>, StoredTwo} :
          LET saved == save_data(variant, <<>>, c, 1)
          IN  ~saved.raised /\ data = saved.store
    /\ now = 1
    /\ last = NoCall
    /\ tasks = IdleReader
    /\ http = NoHttp

\* The end of get_filtered_books: the entities as API models, the page.
page_of(filters, entities, total_count, before) ==
    LET books == [i \in DOMAIN entities |-> entity_to_model(entities[i])]
        page == PaginatedBooks_create(books, total_count, filters.offset,
                                      filters.limit)
        call == [NoCall EXCEPT !.op = "get_filtered_books",
                               !.arg = Some(filters), !.before = before]
    IN  IF \A i \in DOMAIN books : BookValid(books[i])
        THEN Respond([call EXCEPT
                         !.outcome = "ok",
                         !.items = page.items, !.total = page.total,
                         !.has_next = page.has_next])
        ELSE Respond([call EXCEPT !.outcome = "ValidationError"])

\* get_filtered_books is called and runs to the await inside count_total:
\* get_all has read the backend.  The memory client's coroutines never
\* suspend, so with it count_total and the return follow in the same step.
page_get_all(filters) ==
    LET entities == get_all(variant, data, filters)
    IN  /\ tasks.pc = "idle"
        /\ IF variant = "memory"
           THEN /\ tasks' = DoneReader
                /\ last' = page_of(filters, entities,
                                   count_total(variant, data, filters), data)
           ELSE /\ tasks' = [pc |-> "count", filters |-> Some(filters),
                             entities |-> entities]
                /\ last' = last
        /\ UNCHANGED <<data, now>>

PageGetAll ==
    /\ \E filters \in PageFilters : page_get_all(filters)
    /\ UNCHANGED <<variant, http>>

\* get_filtered_books resumes: count_total reads the backend as it is now,
\* and the page is returned.
page_count_total ==
    /\ tasks.pc = "count"
    /\ tasks' = DoneReader
    /\ last' = page_of(tasks.filters[1], tasks.entities,
                       count_total(variant, data, tasks.filters[1]), data)
    /\ UNCHANGED <<data, now>>

PageCountTotal ==
    /\ page_count_total
    /\ UNCHANGED <<variant, http>>

\* A create of another request completes.
PageCreate ==
    /\ now <= MaxClock
    /\ Len(data) < MaxBooks
    /\ \E book \in WriterBooks :
          LET r == create(variant, data, book, now)
          IN  ~r.raised /\ data' = r.store
    /\ now' = now + 1
    /\ UNCHANGED <<variant, last, tasks, http>>

\* A delete of another request completes.
PageDelete ==
    /\ \E book_id \in WriterIds :
          LET r == delete(variant, data, book_id, now)
          IN  ~r.raised /\ r.value /\ data' = r.store
    /\ UNCHANGED <<variant, now, last, tasks, http>>

NextPage ==
    \/ PageGetAll
    \/ PageCountTotal
    \/ PageCreate
    \/ PageDelete

SpecPage == InitPage /\ [][NextPage]_vars

\* C27: a page that get_filtered_books returns has at most
\* min(limit, max(total - offset, 0)) items, and has_next is false when
\* the items reach the end of the total (offset + number of items is at
\* least total), also when creates and deletes complete between its two
\* reads.
C27_PageConsistent ==
    (last.op = "get_filtered_books" /\ last.outcome = "ok") =>
        LET f == last.arg[1]
        IN  /\ Len(last.items) <=
                  Min({f.limit, Max({last.total - f.offset, 0})})
            /\ (f.offset + Len(last.items) >= last.total) => ~last.has_next


----------------------------------------------------------------------------
(* Further properties of the shared HTTP session (SpecHttp).               *)

\* C28: however get_session and close interleave, every session that is
\* open is the one the manager holds in _session, and when no close is
\* running _session is not None while a session is open.
C28_OpenSessionIsHeld ==
    /\ \A s \in http.open : s = http.session
    /\ (~http.closing /\ http.open # {}) => http.session # NoSession


----------------------------------------------------------------------------
(* The reads of the repository and of the service, and a caller that keeps *)
(* the list get_data returned (SpecReads).                                 *)

MaxChanges == 2

\* The operations that only read.
ReadOps ==
    {"get_all", "get_by_id", "count_total", "get_book_by_id",
     "get_filtered_books"}

\* A caller of the storage client: the list it got from get_data, whether
\* that list is the very object the client stores, and the number of
\* changes it made to the list.
NoHeld == [pc |-> "none", list |-> <<>>, shared |-> FALSE, changes |-> 0]

\* A record a caller appends to the list it holds.
HeldRecord == MkRecord(9, <<"m">>, <<"h">>, <<"s">>, "available")

InitReads ==
    /\ variant \in Variants
    /\ \E c \in {<<>>, StoredTwo, Twins} :
          LET saved == save_data(variant, <<>>, c, 1)
          IN  ~saved.raised /\ data = saved.store
    /\ now = 2
    /\ last = NoCall
    /\ tasks = NoHeld
    /\ http = NoHttp

\* BookRepository.get_by_id(book_id), called on the repository itself.
GetById ==
    /\ \E book_id \in BookIds :
          last' = [NoCall EXCEPT
                      !.op = "get_by_id", !.id = book_id, !.before = data,
                      !.outcome = "ok",
                      !.entity = get_by_id(variant, data, book_id)]
    /\ UNCHANGED <<variant, data, now, tasks, http>>

\* A variant of InMemoryStorageClient.get_data that returns _data itself.
memory_get_data_aliasing(store) == [list |-> store, shared |-> TRUE]

\* InMemoryStorageClient.get_data: a copy of _data.
memory_get_data(store) == [list |-> store, shared |-> FALSE]

\* A caller awaits get_data() of the in-memory client and keeps the list.
HoldData ==
    /\ variant = "memory"
    /\ tasks.pc = "none"
    /\ LET got == memory_get_data(data)
       IN  tasks' = [pc |-> "held", list |-> got.list, shared |-> got.shared,
                     changes |-> 0]
    /\ last' = [NoCall EXCEPT !.op = "get_data", !.before = data]
    /\ UNCHANGED <<variant, data, now, http>>

\* The caller appends a record to the list it holds, or removes the first
\* one.  The stored collection changes with it only if the list is the
\* object the client stores.
ChangeHeld ==
    /\ tasks.pc = "held"
    /\ tasks.changes < MaxChanges
    /\ \E changed \in {Append(tasks.list, HeldRecord)} \cup
                      (IF tasks.list = <<>> THEN {} ELSE {Tail(tasks.list)}) :
          /\ tasks' = [tasks EXCEPT !.list = changed,
                                    !.changes = tasks.changes + 1]
          /\ data' = IF tasks.shared THEN changed ELSE data
    /\ last' = [NoCall EXCEPT !.op = "change_held", !.before = data]
    /\ UNCHANGED <<variant, now, http>>

\* The caller awaits save_data(list): the client stores a copy of the list.
SaveHeld ==
    /\ tasks.pc = "held"
    /\ LET saved == save_data(variant, data, tasks.list, now)
       IN  /\ data' = saved.store
           /\ last' = [NoCall EXCEPT !.op = "save_held", !.before = data,
                                     !.saves = 1,
                                     !.written = Some(tasks.list)]
    /\ tasks' = [tasks EXCEPT !.pc = "saved", !.shared = FALSE]
    /\ UNCHANGED <<variant, now, http>>

NextReads ==
    \/ GetAll
    \/ GetById
    \/ CountTotal
    \/ GetBookById
    \/ GetFilteredBooks
    \/ HoldData
    \/ ChangeHeld
    \/ SaveHeld

SpecReads == InitReads /\ [][NextReads]_vars

\* C30: get_all, get_by_id, count_total, get_book_by_id and
\* get_filtered_books never call save_data and leave the stored collection
\* as it was; a change to the list the in-memory get_data returned leaves
\* the stored collection as it was, and save_data makes the stored
\* collection equal to the list saved.
C30_ReadsLeaveStore ==
    [][/\ (last'.op \in ReadOps) =>
              /\ data' = data
              /\ last'.saves = 0 /\ last'.written = None
              /\ last'.before = data
       /\ (last'.op = "change_held") => data' = data
       /\ (last'.op = "save_held") => data' = tasks.list]_vars

\* A read that runs after the caller changed the list it holds, with the
\* stored collection still different from that list.
C30_Witness ==
    /\ variant = "memory"
    /\ tasks.pc = "held" /\ tasks.changes > 0
    /\ tasks.list # data
    /\ last.op \in ReadOps /\ last.before = data

============================================================================
